---- MODULE Spec2Model ----
(***************************************************************************)
(* Verification model of the stock_market_agent repository:               *)
(*   - the asynchronous batch orchestrator (agents/combined_agent)        *)
(*   - the scoring and recommendation layer                               *)
(*   - the technical engine's aggregate score and position sizing         *)
(*   - the fundamentals engine's averaging and CAGR helpers               *)
(*   - the three-factor composite valuation                               *)
(* Every subsystem has its own specification over the shared variables;   *)
(* the variables of the other subsystems stay at their idle values.       *)
(***************************************************************************)
EXTENDS Integers, Sequences, FiniteSets, TLC

\* ------------------------------------------------------------------------
\* Bounds of the model (not program constants)
\* ------------------------------------------------------------------------
MaxTickers == 3
MaxBatchSize == 2

\* Longest list passed to get_means.
MaxListLen == 3

\* Most annual statements the provider delivers.
MaxYears == 5

\* Ticker symbols.  Symbols are interchangeable labels, so input lists are
\* enumerated up to renaming: a list uses the symbols in this order.
TickerSeq == <<"AAPL", "MSFT", "GOOGL">>

VARIABLES
    tickers,      \* analyze_multiple_stocks: the input list
    provider,     \* environment: what the provider does on a fetch of each ticker
    batch_size,   \* analyze_multiple_stocks: the batch_size argument
    i,            \* analyze_multiple_stocks: loop variable of range(0, len, batch_size)
    pc,           \* analyze_multiple_stocks: "loop", "gather" or "done"
    task,         \* the analyze_stock coroutines of the current batch, by list position
    results,      \* analyze_multiple_stocks: the results dict
    engines,      \* analyze_stock_comprehensive: what the two engine calls handed back
    fund_score,   \* analyze_stock_comprehensive: fund_score
    tech_score,   \* analyze_stock_comprehensive: tech_score
    recommendation, \* analyze_stock_comprehensive: recommendation ("none" before the call)
    fund_result,  \* _calculate_fundamental_score: the metrics mapping passed in
    fscore,       \* _calculate_fundamental_score: the returned score (NoValue before the call)
    tpc,          \* complete_technical_analysis: the statement it has reached
    close,        \* complete_technical_analysis: latest['Close'] of the frame
    sub,          \* complete_technical_analysis: the 'score' of each analysis made so far
    total_score,  \* complete_technical_analysis: total_score
    overall_signal, \* complete_technical_analysis: overall_signal ("none" before it is set)
    bars,         \* complete_technical_analysis: len(df), the bars of the price history
    null_results, \* complete_technical_analysis: the analyses that returned None
    latest_rsi,   \* analyze_rsi: latest['RSI'] in thousandths
    rsi_signal,   \* analyze_rsi: signal
    spy,          \* analyze_market_trend: what the provider did on the SPY fetch
    support_level,   \* analyze_support_resistance: the nearest_support it reports
    ppc,          \* calculate_position_size: "call" before the call, "returned" or "raised" after
    pos_args,     \* calculate_position_size: the four arguments
    pos_result,   \* calculate_position_size: the returned dict
    mpc,          \* get_means: "call" before the call, "returned" or "raised" after
    num_list,     \* get_means: the num_list argument
    min_n,        \* get_means: the min_n argument
    mean_result,  \* get_means: the returned value
    cpc,          \* which CAGR computation is called, and whether it has returned
    cagr_args,    \* calculate_cagr: start_value, end_value, periods
    num_years,    \* compute_yfinance_metrics: num_years = len(income)
    has_item,     \* compute_yfinance_metrics: whether income has the line item's column
    column,       \* compute_yfinance_metrics: the line item's yearly values, oldest first
    cagr_result,  \* the value returned by calculate_cagr / stored in the growth metric
    vpc,          \* calculate_composite_valuation: "call" before the call, "returned" after
    graham_score, \* graham_valuation['graham_score'] in fifths, Absent for an empty dict
    per_share_value, \* damodaran_dcf['per_share_value'], Absent for an empty dict
    buffett_score, \* buffett_metrics['buffett_score'] in sixths, Absent for an empty dict
    current_price, \* stock_data['basic_info']['current_price']
    composite_score, \* calculate_composite_valuation: composite_score, a fraction and its rounding
    valuation,    \* calculate_composite_valuation: recommendation
    xpc,          \* compute_yfinance_metrics: "call" before the call, then how it ended
    empty_tables, \* compute_yfinance_metrics: which of the three tables are empty
    n_years,      \* compute_yfinance_metrics: the number of rows of the tables
    statement,    \* compute_yfinance_metrics: each line item's column, or "absent"
    info,         \* compute_yfinance_metrics: the fields of stock.info it reads
    major_holders, \* compute_yfinance_metrics: what reading stock.major_holders gave
    analyst_price_targets, \* compute_yfinance_metrics: what stock.analyst_price_targets gave
    metrics,      \* compute_yfinance_metrics: the metrics mapping handed to the caller
    apc,          \* which analyze_* function is called, and how the call ended
    frame,        \* the rows and columns of df that the called function reads
    analysis      \* the value the called function returned

batchVars == <<tickers, provider, batch_size, i, pc, task, results>>

recVars == <<engines, fund_score, tech_score, recommendation>>

fundVars == <<fund_result, fscore>>

techVars == <<tpc, close, sub, total_score, overall_signal, bars, null_results, latest_rsi,
             rsi_signal, spy, support_level>>

posVars == <<ppc, pos_args, pos_result>>

meansVars == <<mpc, num_list, min_n, mean_result>>

cagrVars == <<cpc, cagr_args, num_years, has_item, column, cagr_result>>

valVars == <<vpc, graham_score, per_share_value, buffett_score, current_price,
            composite_score, valuation>>

metricVars == <<xpc, empty_tables, n_years, statement, info, major_holders,
               analyst_price_targets, metrics>>

analyzeVars == <<apc, frame, analysis>>

vars == <<batchVars, recVars, fundVars, techVars, posVars, meansVars, cagrVars, valVars,
          metricVars, analyzeVars>>

notAnalyze == <<batchVars, recVars, fundVars, techVars, posVars, meansVars, cagrVars,
                valVars, metricVars>>

notMetric == <<batchVars, recVars, fundVars, techVars, posVars, meansVars, cagrVars,
               valVars, analyzeVars>>

\* What the actions of one component leave alone.
notBatch == <<recVars, fundVars, techVars, posVars, meansVars, cagrVars, valVars, metricVars,
    analyzeVars>>

notRec == <<batchVars, fundVars, techVars, posVars, meansVars, cagrVars, valVars, metricVars,
    analyzeVars>>

notFund == <<batchVars, recVars, techVars, posVars, meansVars, cagrVars, valVars, metricVars,
    analyzeVars>>

notTech == <<batchVars, recVars, fundVars, posVars, meansVars, cagrVars, valVars, metricVars,
    analyzeVars>>

notPos == <<batchVars, recVars, fundVars, techVars, meansVars, cagrVars, valVars, metricVars,
    analyzeVars>>

notMeans == <<batchVars, recVars, fundVars, techVars, posVars, cagrVars, valVars, metricVars,
    analyzeVars>>

notCagr == <<batchVars, recVars, fundVars, techVars, posVars, meansVars, valVars, metricVars,
    analyzeVars>>

notVal == <<batchVars, recVars, fundVars, techVars, posVars, meansVars, cagrVars, metricVars,
    analyzeVars>>

\* ------------------------------------------------------------------------
\* Helpers
\* ------------------------------------------------------------------------
Min(a, b) == IF a < b THEN a ELSE b

Range(s) == {s[k] : k \in DOMAIN s}

\* ------------------------------------------------------------------------
\* Batch orchestrator: agents/combined_agent/combined.py
\* ------------------------------------------------------------------------

\* A coroutine that has not been created yet / that has been collected.
IdleTask == [st |-> "idle", stock |-> "none", fun |-> "pending", tech |-> "pending", result |-> "none"]

FinishedTask == [IdleTask EXCEPT !.st = "finished"]

\* Faulty variant of the slice: one position short.
BatchTooShort(lst, start, size) == {k \in DOMAIN lst : start < k /\ k < start + size}

\* tickers[i:i + batch_size] as the set of (1-based) list positions.
Batch(lst, start, size) == {k \in DOMAIN lst : start < k /\ k <= start + size}

\* The except branch of analyze_stock: {'ticker': ticker, 'error': str(e)}.
ErrorRecord(ticker) == [ticker |-> ticker, error |-> TRUE, fun |-> FALSE, tech |-> FALSE]

\* What the provider does on a fetch: "ok" delivers a non-empty history,
\* "raise" raises inside yfinance, "empty" delivers an empty history.
FetchOutcomes == {"ok", "raise", "empty"}

\* get_stock_data: "pair" is (df, stock); an exception inside its try block
\* is swallowed into (None, None); for an empty history it returns the single
\* value None.
get_stock_data(outcome) ==
    CASE outcome = "ok"    -> "pair"
      [] outcome = "raise" -> "pair_of_none"
      [] outcome = "empty" -> "none"

\* Outcomes of compute_yfinance_metrics(stock): a metrics dict, an exception,
\* or the string returned when a statement table is empty.  With stock = None
\* the first attribute access raises.
FunOutcomes(stock) == IF stock = "ok" THEN {"ok", "raise", "str"} ELSE {"raise"}

\* Outcomes of complete_technical_analysis(df); df = None raises in df.copy().
TechOutcomes(stock) == IF stock = "ok" THEN {"ok", "raise"} ELSE {"raise"}

\* Lines 26-40 of analyze_stock: exceptions of the engines become {}, the
\* results are merged with {**fun, **tech, 'ticker': ticker}; unpacking a
\* string with ** raises TypeError, which the except branch records.
Combine(ticker, fun, tech) ==
    IF fun = "str"
    THEN ErrorRecord(ticker)
    ELSE [ticker |-> ticker, error |-> FALSE, fun |-> (fun = "ok"), tech |-> (tech = "ok")]

\* The symbols of a list appear in the order of TickerSeq.
Canonical(lst) ==
    \A k \in DOMAIN lst :
        \E j \in DOMAIN TickerSeq :
            /\ lst[k] = TickerSeq[j]
            /\ j <= 1 + Cardinality({lst[m] : m \in 1..(k - 1)})

BatchInit ==
    /\ tickers \in {lst \in UNION {[1..n -> Range(TickerSeq)] : n \in 0..MaxTickers} : Canonical(lst)}
    /\ provider \in [Range(tickers) -> FetchOutcomes]
    /\ batch_size \in 1..MaxBatchSize
    /\ i = 0
    /\ pc = "loop"
    /\ task = [k \in DOMAIN tickers |-> IdleTask]
    /\ results = <<>>

\* for i in range(0, len(tickers), batch_size): batch = tickers[i:i+batch_size];
\* asyncio.gather creates one analyze_stock task per ticker of the batch.
StartBatch ==
    /\ pc = "loop"
    /\ i < Len(tickers)
    /\ task' = [k \in DOMAIN tickers |->
                  IF k \in Batch(tickers, i, batch_size)
                  THEN [IdleTask EXCEPT !.st = "fetch"]
                  ELSE task[k]]
    /\ pc' = "gather"
    /\ UNCHANGED <<tickers, provider, batch_size, i, results>>
    /\ UNCHANGED notBatch

\* df, stock = await t_an.get_stock_data(ticker)
TaskFetch(k) ==
    /\ pc = "gather"
    /\ task[k].st = "fetch"
    /\ LET r == get_stock_data(provider[tickers[k]]) IN
         IF r = "none"
         THEN \* unpacking None raises TypeError -> except branch
              task' = [task EXCEPT ![k].st = "resolved",
                                   ![k].result = ErrorRecord(tickers[k])]
         ELSE task' = [task EXCEPT ![k].st = "engines",
                                   ![k].stock = IF r = "pair" THEN "ok" ELSE "none"]
    /\ UNCHANGED <<tickers, provider, batch_size, i, pc, results>>
    /\ UNCHANGED notBatch

\* Faulty variant of FetchCompleted: the engines are started with the fetch.
FetchStarted(t) == t.st \in {"fetch", "engines"}

\* Line 17 awaits get_stock_data before the inner gather of lines 20-24 is
\* built: the engines of a task exist only once its fetch has returned.
FetchCompleted(t) == t.st = "engines"

\* f_an.compute_yfinance_metrics(stock), run inside the inner gather
TaskFund(k) ==
    /\ pc = "gather"
    /\ FetchCompleted(task[k])
    /\ task[k].fun = "pending"
    /\ \E o \in FunOutcomes(task[k].stock) : task' = [task EXCEPT ![k].fun = o]
    /\ UNCHANGED <<tickers, provider, batch_size, i, pc, results>>
    /\ UNCHANGED notBatch

\* t_an.complete_technical_analysis(df), run inside the inner gather
TaskTech(k) ==
    /\ pc = "gather"
    /\ FetchCompleted(task[k])
    /\ task[k].tech = "pending"
    /\ \E o \in TechOutcomes(task[k].stock) : task' = [task EXCEPT ![k].tech = o]
    /\ UNCHANGED <<tickers, provider, batch_size, i, pc, results>>
    /\ UNCHANGED notBatch

\* the inner gather has both results: handle exceptions, combine, return
TaskCombine(k) ==
    /\ pc = "gather"
    /\ task[k].st = "engines"
    /\ task[k].fun # "pending"
    /\ task[k].tech # "pending"
    /\ task' = [task EXCEPT ![k].st = "resolved",
                            ![k].result = Combine(tickers[k], task[k].fun, task[k].tech)]
    /\ UNCHANGED <<tickers, provider, batch_size, i, pc, results>>
    /\ UNCHANGED notBatch

RECURSIVE StoreFromNext(_, _, _)
\* Faulty variant of StoreFrom: a result is stored under the ticker of the
\* next position of the batch (the last under its own).
StoreFromNext(res, k, last) ==
    IF k > last THEN res
    ELSE LET t == tickers[IF k < last THEN k + 1 ELSE k]
             r == task[k].result
             res1 == [x \in (DOMAIN res) \cup {t} |-> IF x = t THEN r ELSE res[x]]
         IN StoreFromNext(res1, k + 1, last)

\* for ticker, result in zip(batch, batch_results): results[ticker] = result
\* (a later position of the same ticker overwrites an earlier one)
RECURSIVE StoreFrom(_, _, _)
StoreFrom(res, k, last) ==
    IF k > last THEN res
    ELSE LET t == tickers[k]
             r == task[k].result
             res1 == [x \in (DOMAIN res) \cup {t} |-> IF x = t THEN r ELSE res[x]]
         IN StoreFrom(res1, k + 1, last)

\* Faulty variant of the gather: resolved as soon as one task has resolved.
GatherFirstCompleted(b) == \E k \in b : task[k].st = "resolved"

\* await asyncio.gather(*[analyze_stock(...) for ticker in batch]): the outer
\* gather resolves once every task of the batch has resolved.
GatherResolved(b) == \A k \in b : task[k].st = "resolved"

\* The outer gather has resolved: the results are stored and the loop moves
\* on (batch_results is dropped, so are the coroutines that returned).
StoreResults ==
    /\ pc = "gather"
    /\ GatherResolved(Batch(tickers, i, batch_size))
    /\ LET b == Batch(tickers, i, batch_size) IN
         /\ results' = IF b = {} THEN results
                       ELSE StoreFrom(results, i + 1, CHOOSE m \in b : \A k \in b : k <= m)
         /\ task' = [k \in DOMAIN tickers |->
                       IF k \in b /\ task[k].st = "resolved" THEN FinishedTask ELSE task[k]]
    /\ i' = i + batch_size
    /\ pc' = "loop"
    /\ UNCHANGED <<tickers, provider, batch_size>>
    /\ UNCHANGED notBatch

\* return results
Return ==
    /\ pc = "loop"
    /\ i >= Len(tickers)
    /\ pc' = "done"
    /\ UNCHANGED <<tickers, provider, batch_size, i, task, results>>
    /\ UNCHANGED notBatch

BatchNext ==
    \/ StartBatch
    \/ \E k \in DOMAIN tickers : TaskFetch(k)
    \/ \E k \in DOMAIN tickers : TaskFund(k)
    \/ \E k \in DOMAIN tickers : TaskTech(k)
    \/ \E k \in DOMAIN tickers : TaskCombine(k)
    \/ StoreResults
    \/ Return

\* The batch orchestrator is not running.
BatchIdle ==
    /\ tickers = <<>>
    /\ provider = <<>>
    /\ batch_size = 1
    /\ i = 0
    /\ pc = "idle"
    /\ task = <<>>
    /\ results = <<>>

\* ------------------------------------------------------------------------
\* Numbers as Python sees them: a float may be NaN or +infinity, a mapping
\* may lack a key.  Metric values are carried in tenths (MetricScale).
\* ------------------------------------------------------------------------
MetricScale == 10

NaN == <<"nan", 0>>

Inf == <<"inf", 0>>

NegInf == <<"-inf", 0>>

Absent == <<"absent", 0>>

Num(n) == <<"num", n>>

\* A float strictly between g and g + 1.
Above(g) == <<"num", g, "above">>

\* The float a computation whose real result is the whole number g ends on
\* when its operations round: g or a float next to it (10.000000000000009
\* for 10, 19.999999999999996 for 20).
Near(g) == <<"num", g, "near">>

\* A result that has not been computed yet / a subsystem that is not in use.
NoValue == <<"none", 0>>

IdleValue == <<"idle", 0>>

IsNum(x) == x[1] = "num"

\* x > c and x < c for a float x and a finite constant c (both in tenths);
\* every comparison with NaN is False, inf is above and -inf below every
\* finite constant.
Gt(x, c) == IF IsNum(x) THEN x[2] > c ELSE x = Inf

Lt(x, c) == IF IsNum(x) THEN x[2] < c ELSE x = NegInf

\* dict.get(key, default)
Get(m, key, default) == IF m[key] = Absent THEN default ELSE m[key]

\* ------------------------------------------------------------------------
\* Scoring layer: agents/combined_agent/combined_analysis.py
\* ------------------------------------------------------------------------

\* Faulty variant of a bucket: the upper threshold is set five too high.
HigherIsBetterShifted(m, key, hi, lo) ==
    IF Gt(Get(m, key, Num(0)), hi + 5 * MetricScale) THEN 10
    ELSE IF Gt(Get(m, key, Num(0)), lo) THEN 5
    ELSE 0

\* One bucket of _calculate_fundamental_score:
\*   if get(key, 0) > hi: 10    elif get(key, 0) > lo: 5
HigherIsBetter(m, key, hi, lo) ==
    IF Gt(Get(m, key, Num(0)), hi) THEN 10
    ELSE IF Gt(Get(m, key, Num(0)), lo) THEN 5
    ELSE 0

_calculate_fundamental_score_points(m) ==
    \* Profitability metrics (30 points)
      HigherIsBetter(m, "ROE", 15 * MetricScale, 10 * MetricScale)
    + HigherIsBetter(m, "ROCE", 15 * MetricScale, 10 * MetricScale)
    + HigherIsBetter(m, "NPM", 10 * MetricScale, 5 * MetricScale)
    \* Growth metrics (20 points)
    + HigherIsBetter(m, "Earnings Growth 5yr cagr", 15 * MetricScale, 5 * MetricScale)
    + HigherIsBetter(m, "Sales Growth 5yr cagr", 15 * MetricScale, 5 * MetricScale)
    \* Financial health (25 points)
    + (IF Lt(Get(m, "d/e_market", Num(0)), 5) THEN 10
       ELSE IF Lt(Get(m, "d/e_market", Num(0)), 10) THEN 5 ELSE 0)
    + HigherIsBetter(m, "Interest coverage", 3 * MetricScale, 2 * MetricScale)
    + (IF Gt(Get(m, "CFO", Num(0)), 0) THEN 5 ELSE 0)
    \* Valuation (15 points)
    + (LET pe == Get(m, "p/e", Inf) IN
       IF Lt(pe, 15 * MetricScale) /\ Gt(pe, 0) THEN 10
       ELSE IF Lt(pe, 25 * MetricScale) /\ Gt(pe, 0) THEN 5 ELSE 0)
    + (IF Gt(Get(m, "EY", Num(0)), 7 * MetricScale) THEN 5 ELSE 0)
    \* Cash flow quality (10 points)
    + (IF Gt(Get(m, "cCFO/cPAT", Num(0)), 10) THEN 10
       ELSE IF Gt(Get(m, "cCFO/cPAT", Num(0)), 8) THEN 5 ELSE 0)

\* max_score = 30 + 20 + 25 + 15 + 10
FundMaxScore == 100

\* return (score / max_score) * 100 if max_score > 0 else 0.  The points are
\* a multiple of 5 up to 100, and on these the float (score / 100) * 100 is
\* the whole number of points, except that 0.55 * 100 rounds to
\* 55.00000000000001.
_calculate_fundamental_score(m) ==
    LET score == _calculate_fundamental_score_points(m)
        whole == (score * 100) \div FundMaxScore
    IN  IF FundMaxScore > 0
        THEN (IF score = 55 THEN Above(whole) ELSE Num(whole))
        ELSE Num(0)

\* Faulty variant of the ladder: strict comparisons.
RecommendationStrict(fund, tech) ==
    IF fund > 70 /\ tech > 67 THEN "STRONG BUY"
    ELSE IF fund > 70 /\ tech > 50 THEN "BUY WITH CAUTION"
    ELSE IF fund > 50 /\ tech > 67 THEN "WAIT"
    ELSE "AVOID"

\* Lines 71-83 of analyze_stock_comprehensive: the recommendation ladder.
Recommendation(fund, tech) ==
    IF fund >= 70 /\ tech >= 67 THEN "STRONG BUY"
    ELSE IF fund >= 70 /\ tech >= 50 THEN "BUY WITH CAUTION"
    ELSE IF fund >= 50 /\ tech >= 67 THEN "WAIT"
    ELSE "AVOID"

\* What an engine call can hand back to analyze_stock_comprehensive: a result
\* mapping, an empty mapping, None (analyze_single_stock returns None when
\* get_yfinance_data raises, fundamental_analysis.py:496-503) or, when an
\* async def is called without await, a coroutine object.
EngineResults == {"mapping", "empty", "None", "coroutine"}

RecIdle ==
    /\ engines = [fund |-> "idle", tech |-> "idle"]
    /\ fund_score = 0
    /\ tech_score = 0
    /\ recommendation = "idle"

\* The results of analyze_single_stock and complete_technical_analysis as
\* analyze_stock_comprehensive receives them; fund_score and tech_score are
\* the scores two result mappings carry (0 where a result carries none).
RecInit ==
    /\ engines \in [fund : EngineResults, tech : EngineResults]
    /\ IF engines.fund = "mapping" /\ engines.tech = "mapping"
       THEN fund_score \in 0..100 /\ tech_score \in 0..100
       ELSE fund_score = 0 /\ tech_score = 0
    /\ recommendation = "none"

\* analyze_stock_comprehensive up to the recommendation: 'if not
\* fund_result: return None' (53-55), 'if not tech_result: return None'
\* (62-64), None and {} being falsy; a filled mapping and a coroutine
\* object are truthy, and a coroutine object passes both guards and then
\* _calculate_fundamental_score raises on its missing .get, or
\* tech_result['score_percentage'] raises on the subscript; with two filled
\* mappings the scores are read and the ladder decides.
Recommend ==
    /\ recommendation = "none"
    /\ recommendation' =
          IF engines.fund \in {"empty", "None"} THEN "returned None"
          ELSE IF engines.tech \in {"empty", "None"} THEN "returned None"
          ELSE IF engines.fund = "coroutine" THEN "raised"
          ELSE IF engines.tech = "coroutine" THEN "raised"
          ELSE Recommendation(fund_score, tech_score)
    /\ UNCHANGED <<engines, fund_score, tech_score>>
    /\ UNCHANGED notRec

\* The metric values the scoring is exercised on (in tenths), per key.
MetricInputs ==
    [ROE |-> {Absent, Num(120), Num(180)},
     ROCE |-> {Absent, Num(150), Num(160)},
     NPM |-> {Absent, Num(120)},
     EG |-> {Absent, NaN, Num(100), Num(200)},
     SG |-> {Absent, Num(200)},
     DE |-> {Absent, NegInf, Num(3), Num(7)},
     IC |-> {Absent, Num(50), Inf},
     CFO |-> {Absent, Num(-10), Num(10)},
     PE |-> {Absent, Num(120), Num(200)},
     EY |-> {Absent, Num(80)},
     CC |-> {Absent, Num(9), Num(12)}]

FundIdle ==
    /\ fund_result = <<>>
    /\ fscore = IdleValue

FundInit ==
    /\ \E roe \in MetricInputs.ROE, roce \in MetricInputs.ROCE, npm \in MetricInputs.NPM,
          eg \in MetricInputs.EG, sg \in MetricInputs.SG, de \in MetricInputs.DE,
          ic \in MetricInputs.IC, cfo \in MetricInputs.CFO, pe \in MetricInputs.PE,
          ey \in MetricInputs.EY, cc \in MetricInputs.CC :
         fund_result =
           ("ROE" :> roe) @@ ("ROCE" :> roce) @@ ("NPM" :> npm)
           @@ ("Earnings Growth 5yr cagr" :> eg) @@ ("Sales Growth 5yr cagr" :> sg)
           @@ ("d/e_market" :> de) @@ ("Interest coverage" :> ic) @@ ("CFO" :> cfo)
           @@ ("p/e" :> pe) @@ ("EY" :> ey) @@ ("cCFO/cPAT" :> cc)
    /\ fscore = NoValue

\* fund_score = self._calculate_fundamental_score(fund_result)
CalculateFundamentalScore ==
    /\ fscore = NoValue
    /\ fscore' = _calculate_fundamental_score(fund_result)
    /\ UNCHANGED fund_result
    /\ UNCHANGED notFund

\* ------------------------------------------------------------------------
\* Technical engine: agents/technical_analysis_agent/technical_analysis.py
\* ------------------------------------------------------------------------

\* sum([...]) over Python booleans counts the True ones.
B(b) == IF b THEN 1 ELSE 0

\* x > y on floats; every comparison with NaN is False.
GtF(x, y) ==
    IF IsNum(x) /\ IsNum(y) THEN x[2] > y[2]
    ELSE \/ x = Inf /\ (IsNum(y) \/ y = NegInf)
         \/ y = NegInf /\ IsNum(x)

\* analyze_moving_averages: score = sum([above_50, above_200, golden_cross]).
MaScore(price, sma_50, sma_200) ==
    B(GtF(price, sma_50)) + B(GtF(price, sma_200)) + B(GtF(sma_50, sma_200))

\* analyze_macd: score = sum([bullish_crossover, above_zero, hist_positive]),
\* where calculate_macd sets MACD_hist = MACD - MACD_signal.
MacdScore(macd, signal) ==
    LET hist == macd - signal
    IN  B(macd > signal) + B(macd > 0) + B(hist > 0)

\* RSI values are carried in thousandths of a point.
RsiScale == 1000

\* x >= c and x <= c on a float: False for NaN.
Ge(x, c) == IF IsNum(x) THEN x[2] >= c ELSE x = Inf

Le(x, c) == IF IsNum(x) THEN x[2] <= c ELSE x = NegInf

\* Faulty variant of RsiScore: the sweet-spot check is left out of the sum.
RsiScoreNoSweetSpot(rsi) ==
    B(Lt(rsi, 70 * RsiScale)) + B(Gt(rsi, 50 * RsiScale))

\* analyze_rsi: score = sum([rsi < 70, rsi > 50, 40 < rsi < 70]).
RsiScore(rsi) ==
    B(Lt(rsi, 70 * RsiScale)) + B(Gt(rsi, 50 * RsiScale))
    + B(Gt(rsi, 40 * RsiScale) /\ Lt(rsi, 70 * RsiScale))

\* Faulty variant of RsiSignal: the bounds of the two zones are exclusive.
RsiSignalExclusive(x) ==
    IF Gt(x, 45 * RsiScale) /\ Lt(x, 60 * RsiScale) THEN "STRONG BUY - Ideal zone"
    ELSE IF Gt(x, 40 * RsiScale) /\ Lt(x, 70 * RsiScale) THEN "BUY - Acceptable zone"
    ELSE IF Gt(x, 70 * RsiScale) THEN "WAIT - Overbought, pullback likely"
    ELSE IF Lt(x, 40 * RsiScale)
         THEN "CAUTION - Oversold, wait for bounce confirmation"
    ELSE "NEUTRAL"

\* analyze_rsi, lines 288-297: the signal ladder.
RsiSignal(x) ==
    IF Ge(x, 45 * RsiScale) /\ Le(x, 60 * RsiScale) THEN "STRONG BUY - Ideal zone"
    ELSE IF Ge(x, 40 * RsiScale) /\ Le(x, 70 * RsiScale) THEN "BUY - Acceptable zone"
    ELSE IF Gt(x, 70 * RsiScale) THEN "WAIT - Overbought, pullback likely"
    ELSE IF Lt(x, 40 * RsiScale)
         THEN "CAUTION - Oversold, wait for bounce confirmation"
    ELSE "NEUTRAL"

\* analyze_vwma: score = sum([above_vwma, vwma_rising, volume_pattern_bullish]).
VwmaScore(price, vwma, vwma_rising, avg_vol_up, avg_vol_down) ==
    B(GtF(price, vwma)) + B(vwma_rising) + B(avg_vol_up > avg_vol_down)

\* dist_to_support = (current_price - nearest_support) / current_price * 100
\* compared with a whole percentage c; current_price is positive.
DistBelow(price, level, c) ==
    IsNum(level) /\ (price[2] - level[2]) * 100 < c * price[2]

DistAbove(price, level, c) ==
    IsNum(level) /\ (level[2] - price[2]) * 100 > c * price[2]

\* Faulty variant of the position score: being at support counts one point only.
SrScoreNearOnly(price, nearest_support, nearest_resistance) ==
    (IF DistBelow(price, nearest_support, 5) THEN 1 ELSE 0)
    + (IF DistAbove(price, nearest_resistance, 5) THEN 1 ELSE 0)

\* Faulty variant of the position score: 'if' in place of 'elif'.
SrScoreNoElif(price, nearest_support, nearest_resistance) ==
    (IF DistBelow(price, nearest_support, 2) THEN 2 ELSE 0)
    + (IF DistBelow(price, nearest_support, 5) THEN 1 ELSE 0)
    + (IF DistAbove(price, nearest_resistance, 5) THEN 1 ELSE 0)

\* analyze_support_resistance, lines 518-525: the score based on position.
SrScore(price, nearest_support, nearest_resistance) ==
    (IF DistBelow(price, nearest_support, 2) THEN 2
     ELSE IF DistBelow(price, nearest_support, 5) THEN 1
     ELSE 0)
    + (IF DistAbove(price, nearest_resistance, 5) THEN 1 ELSE 0)

TechMaxScore == 15

\* score_pct = (total_score / max_score) * 100 compared with a whole
\* percentage: total/15*100 >= c exactly when total*100 >= c*15.
PctAtLeast(total, c) == total * 100 >= c * TechMaxScore

OverallSignal(total) ==
    IF PctAtLeast(total, 67) THEN "STRONG BUY"
    ELSE IF PctAtLeast(total, 50) THEN "WAIT"
    ELSE "AVOID"

\* Values of the latest bar the analyses read.  Supports lie at or below the
\* close and resistances at or above it; a level is NaN when its rolling
\* window is not yet full.  The averages lie on either side of either close, and two
\* of them below both (a close above its short average above its long one).
ClosePrices == {Num(100), Num(110)}

AverageLevels == {NaN, Num(90), Num(95), Num(105)}

MacdLevels == {-2, 0, 1, 3}

RsiLevels == {NaN, Num(30000), Num(39999), Num(40000), Num(44999), Num(45000),
              Num(50000), Num(60000), Num(60001), Num(70000), Num(70001), Num(80000)}

\* The rolling windows of the indicators: a value is NaN until its window
\* is full.
SmaShortWindow == 50

SmaLongWindow == 200

RsiPeriod == 14

VwmaPeriod == 20

LevelWindow == 60

PivotWindow == 5

\* len(df): an empty history, one or two bars, and one length per window.
HistoryLengths == {0, 1, 2, RsiPeriod, VwmaPeriod, SmaShortWindow, LevelWindow,
                   SmaLongWindow}

\* rolling(window).mean() and its like on the latest of n bars.
WindowFilled(level, n, window) == n < window => level = NaN

VolumeLevels == {0, 1000, 2000}

\* Supports within 2%, within 5% and further than 5% below either close.
SupportLevels == {NaN, Num(88), Num(94), Num(95), Num(97), Num(98), Num(99), Num(100),
                  Num(105), Num(108)}

ResistanceLevels == {NaN, Num(105), Num(110), Num(111), Num(115), Num(116), Num(120)}

TechIdle ==
    /\ tpc = "idle"
    /\ close = IdleValue
    /\ sub = <<>>
    /\ total_score = 0
    /\ overall_signal = "idle"
    /\ bars = 0
    /\ null_results = {}
    /\ latest_rsi = IdleValue
    /\ rsi_signal = "idle"
    /\ spy = "idle"
    /\ support_level = IdleValue

\* An empty frame has no latest bar.
TechInit ==
    /\ tpc = "moving_averages"
    /\ bars \in HistoryLengths
    /\ close \in IF bars = 0 THEN {NoValue} ELSE ClosePrices
    /\ sub = <<>>
    /\ total_score = 0
    /\ overall_signal = "none"
    /\ null_results = {}
    /\ latest_rsi = NoValue
    /\ rsi_signal = "none"
    /\ spy = "none"
    /\ support_level = NoValue

\* Every analyze_* starts with 'if df is None or df.empty: return None'.
AnalyzeMovingAverages ==
    /\ tpc = "moving_averages"
    /\ IF bars = 0
       THEN /\ null_results' = null_results \cup {"moving_averages"}
            /\ UNCHANGED sub
       ELSE /\ \E sma_50 \in AverageLevels, sma_200 \in AverageLevels :
                 /\ WindowFilled(sma_50, bars, SmaShortWindow)
                 /\ WindowFilled(sma_200, bars, SmaLongWindow)
                 /\ sub' = sub @@ ("moving_averages" :> MaScore(close, sma_50, sma_200))
            /\ UNCHANGED null_results
    /\ tpc' = "macd"
    /\ UNCHANGED <<close, total_score, overall_signal, bars, latest_rsi, rsi_signal, spy,
                   support_level>>
    /\ UNCHANGED notTech

\* prev = df.iloc[-2] raises IndexError on a frame of one bar.
AnalyzeMacd ==
    /\ tpc = "macd"
    /\ IF bars = 0
       THEN /\ null_results' = null_results \cup {"macd"}
            /\ tpc' = "rsi"
            /\ UNCHANGED sub
       ELSE IF bars = 1
       THEN /\ tpc' = "raised"
            /\ UNCHANGED <<sub, null_results>>
       ELSE /\ \E macd \in MacdLevels, signal \in MacdLevels :
                 sub' = sub @@ ("macd" :> MacdScore(macd, signal))
            /\ tpc' = "rsi"
            /\ UNCHANGED null_results
    /\ UNCHANGED <<close, total_score, overall_signal, bars, latest_rsi, rsi_signal, spy,
                   support_level>>
    /\ UNCHANGED notTech

AnalyzeRsi ==
    /\ tpc = "rsi"
    /\ IF bars = 0
       THEN /\ null_results' = null_results \cup {"rsi"}
            /\ UNCHANGED <<sub, latest_rsi, rsi_signal>>
       ELSE /\ \E x \in RsiLevels :
                 /\ WindowFilled(x, bars, RsiPeriod)
                 /\ latest_rsi' = x
                 /\ rsi_signal' = RsiSignal(x)
                 /\ sub' = sub @@ ("rsi" :> RsiScore(x))
            /\ UNCHANGED null_results
    /\ tpc' = "vwma"
    /\ UNCHANGED <<close, total_score, overall_signal, bars, spy, support_level>>
    /\ UNCHANGED notTech

\* vwma_rising is is_monotonic_increasing of the last five VWMA values,
\* which is False when one of them is NaN.
AnalyzeVwma ==
    /\ tpc = "vwma"
    /\ IF bars = 0
       THEN /\ null_results' = null_results \cup {"vwma"}
            /\ UNCHANGED sub
       ELSE /\ \E vwma \in AverageLevels, vwma_rising \in BOOLEAN,
                  avg_vol_up \in VolumeLevels, avg_vol_down \in VolumeLevels :
                 /\ WindowFilled(vwma, bars, VwmaPeriod)
                 /\ vwma_rising => (IsNum(vwma) /\ bars >= VwmaPeriod + 4)
                 /\ sub' = sub @@ ("vwma" :> VwmaScore(close, vwma, vwma_rising,
                                                       avg_vol_up, avg_vol_down))
            /\ UNCHANGED null_results
    /\ tpc' = "support_resistance"
    /\ UNCHANGED <<close, total_score, overall_signal, bars, latest_rsi, rsi_signal, spy,
                   support_level>>
    /\ UNCHANGED notTech

\* The nearest levels are pivots, which need PivotWindow bars on either
\* side, or else the 60-bar extremes: a pivot support is below the close
\* and a pivot resistance above it, the 60-bar low at most the close and the
\* 60-bar high at least the close.
AnalyzeSupportResistance ==
    /\ tpc = "support_resistance"
    /\ IF bars = 0
       THEN /\ null_results' = null_results \cup {"support_resistance"}
            /\ UNCHANGED <<sub, support_level>>
       ELSE /\ \E support \in SupportLevels, nearest_resistance \in ResistanceLevels :
                 /\ WindowFilled(support, bars, 2 * PivotWindow + 1)
                 /\ WindowFilled(nearest_resistance, bars, 2 * PivotWindow + 1)
                 /\ bars >= LevelWindow => IsNum(support) /\ IsNum(nearest_resistance)
                 /\ IsNum(nearest_resistance) => nearest_resistance[2] >= close[2]
                 /\ (IsNum(nearest_resistance) /\ bars < LevelWindow)
                        => nearest_resistance[2] > close[2]
                 /\ IsNum(support) => support[2] <= close[2]
                 /\ (IsNum(support) /\ bars < LevelWindow) => support[2] < close[2]
                 /\ support_level' = support
                 /\ sub' = sub @@ ("support_resistance" :>
                                   SrScore(close, support, nearest_resistance))
            /\ UNCHANGED null_results
    /\ tpc' = "market_context"
    /\ UNCHANGED <<close, total_score, overall_signal, bars, latest_rsi, rsi_signal, spy>>
    /\ UNCHANGED notTech

\* market_analysis, spy_df = await self.analyze_market_trend(): when the SPY
\* fetch raised, get_stock_data hands (None, None) to analyze_market_trend,
\* which returns None, and unpacking None here raises; when the SPY history
\* is empty, get_stock_data returns None and the unpacking inside
\* analyze_market_trend raises.
AnalyzeMarketTrend ==
    /\ tpc = "market_context"
    /\ \E outcome \in FetchOutcomes :
          /\ spy' = outcome
          /\ tpc' = IF get_stock_data(outcome) = "pair" THEN "total" ELSE "raised"
    /\ UNCHANGED <<close, sub, total_score, overall_signal, bars, null_results,
                   latest_rsi, rsi_signal, support_level>>
    /\ UNCHANGED notTech

\* Lines 690-711: the total and the overall signal; ['score'] on a None
\* analysis raises TypeError.
Aggregate ==
    /\ tpc = "total"
    /\ IF null_results # {}
       THEN /\ tpc' = "raised"
            /\ UNCHANGED <<total_score, overall_signal>>
       ELSE /\ LET total == sub["moving_averages"] + sub["macd"] + sub["rsi"]
                            + sub["vwma"] + sub["support_resistance"]
               IN  /\ total_score' = total
                   /\ overall_signal' = OverallSignal(total)
            /\ tpc' = "done"
    /\ UNCHANGED <<close, sub, bars, null_results, latest_rsi, rsi_signal, spy,
                   support_level>>
    /\ UNCHANGED notTech

\* ------------------------------------------------------------------------
\* Position sizing: TechnicalAnalysis.calculate_position_size
\* ------------------------------------------------------------------------

\* Prices and the risk percent are held in tenths.

\* int(x) of a quotient a / b with b > 0: truncation toward zero.
TruncDiv(a, b) == IF a >= 0 THEN a \div b ELSE -((-a) \div b)

\* The dict of the error branch, of the normal return, and the outcome of a
\* call that raises.
PositionError == [status |-> "error", shares |-> 0, position_value |-> 0]

PositionRaised == [status |-> "raised", shares |-> 0, position_value |-> 0]

PositionNone == [status |-> "none", shares |-> 0, position_value |-> 0]

\* Faulty variant of the guard: a stop equal to the entry passes.
InvalidStopStrict(risk_per_share) == risk_per_share < 0

\* if risk_per_share <= 0
InvalidStop(risk_per_share) == risk_per_share <= 0

\* The arguments are binary floats, and risk_percent / 100, the product, the
\* difference entry_price - stop_loss_price and the quotient are each rounded
\* to the nearest float.  The decimal values fix the quotient up to that
\* rounding: "exact" when the float quotient is not below the decimal one,
\* "below" when it falls a rounding error short of it in magnitude
\* (10.0 - 9.7 is 0.3000000000000007, and 1500.0 / 0.3000000000000007 is
\* just under 5000).
FloatRoundings == {"exact", "below"}

\* int(a / b) for b > 0: the quotient truncated towards zero.  A rounding
\* error matters only where the decimal quotient is a whole number other
\* than 0, which int() of a float just short of it takes one down in
\* magnitude.
IntOfQuotient(a, b, rounding) ==
    LET q == TruncDiv(a, b)
    IN  IF rounding = "below" /\ q * b = a /\ q # 0
        THEN (IF q > 0 THEN q - 1 ELSE q + 1)
        ELSE q

\* risk_amount = portfolio_value * (risk_percent / 100), shares =
\* int(risk_amount / risk_per_share), position_value = shares * entry_price
\* (in tenths); position_percent = (position_value / portfolio_value) * 100
\* raises ZeroDivisionError for an empty portfolio.
calculate_position_size(portfolio_value, risk_percent, entry_price, stop_loss_price, rounding) ==
    LET risk_per_share == entry_price - stop_loss_price
    IN  IF InvalidStop(risk_per_share) THEN PositionError
        \* risk_amount / 0.0 raises ZeroDivisionError (behind the guard above)
        ELSE IF risk_per_share = 0 THEN PositionRaised
        ELSE LET shares == IntOfQuotient(portfolio_value * risk_percent,
                                         100 * risk_per_share, rounding)
             IN  IF portfolio_value = 0 THEN PositionRaised
                 ELSE [status |-> "ok", shares |-> shares,
                       position_value |-> shares * entry_price]

PortfolioValues == {-1000, 0, 1000, 100000}

RiskPercents == {-10, 0, 15, 20, 1000}

EntryPrices == {100, 500, 1000}

StopPrices == {0, 97, 480, 970, 985, 1000, 1030}

PosIdle ==
    /\ ppc = "idle"
    /\ pos_args = [portfolio_value |-> 0, risk_percent |-> 0,
                   entry_price |-> 0, stop_loss_price |-> 0]
    /\ pos_result = PositionNone

PosInit ==
    /\ ppc = "call"
    /\ pos_args \in [portfolio_value : PortfolioValues, risk_percent : RiskPercents,
                     entry_price : EntryPrices, stop_loss_price : StopPrices]
    /\ pos_result = PositionNone

CalculatePositionSize ==
    /\ ppc = "call"
    /\ \E rounding \in FloatRoundings :
         pos_result' = calculate_position_size(pos_args.portfolio_value,
                                               pos_args.risk_percent, pos_args.entry_price,
                                               pos_args.stop_loss_price, rounding)
    /\ ppc' = IF pos_result'.status = "raised" THEN "raised" ELSE "returned"
    /\ UNCHANGED pos_args
    /\ UNCHANGED notPos

PosNext == CalculatePositionSize

TechNext ==
    \/ AnalyzeMovingAverages
    \/ AnalyzeMacd
    \/ AnalyzeRsi
    \/ AnalyzeVwma
    \/ AnalyzeSupportResistance
    \/ AnalyzeMarketTrend
    \/ Aggregate

\* ------------------------------------------------------------------------
\* Fundamental engine helpers: FundamentalAnalysis.get_means, null_check
\* ------------------------------------------------------------------------

\* Python None.
NoneValue == <<"None", 0>>

\* Fractions n/d with d > 0, kept in lowest terms.
Abs(x) == IF x < 0 THEN -x ELSE x

RECURSIVE Gcd(_, _)
Gcd(a, b) == IF b = 0 THEN a ELSE Gcd(b, a % b)

Frac(n, d) == LET g == Gcd(Abs(n), d) IN <<n \div g, d \div g>>

AddF(a, b) == Frac(a[1] * b[2] + b[1] * a[2], a[2] * b[2])

\* The mean of n numbers whose sum is total, and the sentinel -1.  A
\* quotient is kept as the pair of its operands: the float is total / n up
\* to the rounding of the operations that led to it ((1 / 3) * 100 is
\* 33.33333333333333, 100 / 3 is 33.333333333333336), where Num(n) is the
\* float n itself.
Ratio(total, n) == <<"ratio", total, n>>

Sentinel == Num(-1)

Raised == <<"raised", 0>>

\* Faulty variant of null_check: its first conjunct alone.
null_check_ne_nan(c) == TRUE

\* null_check(c): c != np.nan and c is not None and pd.notnull(c).  The first
\* conjunct holds for every value, NaN included.
null_check(c) == c # NoneValue /\ c # NaN

\* The sum of the list as a fraction, a number n being n/1.
RECURSIVE SumSeq(_)
SumSeq(lst) ==
    IF lst = <<>> THEN <<0, 1>>
    ELSE AddF(IF Head(lst)[1] = "ratio" THEN <<Head(lst)[2], Head(lst)[3]>>
              ELSE <<Head(lst)[2], 1>>,
              SumSeq(Tail(lst)))

\* np.mean(num_list): raises on None, is NaN for the empty list, for a list
\* holding NaN and for one holding both infinities, is an infinity when the
\* list holds one, and otherwise the sum over the length.
np_mean(lst) ==
    IF NoneValue \in Range(lst) THEN Raised
    ELSE IF lst = <<>> \/ NaN \in Range(lst) THEN NaN
    ELSE IF Inf \in Range(lst) /\ NegInf \in Range(lst) THEN NaN
    ELSE IF Inf \in Range(lst) THEN Inf
    ELSE IF NegInf \in Range(lst) THEN NegInf
    ELSE LET total == SumSeq(lst)
         IN  Ratio(total[1], total[2] * Len(lst))

get_means(lst, n) ==
    LET kept == SelectSeq(lst, null_check)
        mean_cal == np_mean(kept)
    IN  IF mean_cal = Raised THEN Raised
        ELSE IF null_check(mean_cal) /\ Len(kept) >= n THEN mean_cal
        ELSE Sentinel

ListValues == {NoneValue, NaN, Inf, NegInf, Num(-1), Num(2), Num(5)}

MeansIdle ==
    /\ mpc = "idle"
    /\ num_list = <<>>
    /\ min_n = 2
    /\ mean_result = IdleValue

MeansInit ==
    /\ mpc = "call"
    /\ \E len \in 0..MaxListLen : num_list \in [1..len -> ListValues]
    /\ min_n \in 1..3
    /\ mean_result = NoValue

GetMeans ==
    /\ mpc = "call"
    /\ mean_result' = get_means(num_list, min_n)
    /\ mpc' = IF mean_result' = Raised THEN "raised" ELSE "returned"
    /\ UNCHANGED <<num_list, min_n>>
    /\ UNCHANGED notMeans

MeansNext == GetMeans

\* ------------------------------------------------------------------------
\* Fundamental engine: calculate_cagr and the two growth metrics
\* ------------------------------------------------------------------------

RECURSIVE Pow(_, _)
Pow(b, n) == IF n = 0 THEN 1 ELSE b * Pow(b, n - 1)

\* The whole percent below ((e / s) ** (1 / p) - 1) * 100 for positive s, e
\* and p: the largest g with (100 + g)^p * s <= e * 100^p, searched upward
\* in strides of 20 and then of 1.
RECURSIVE GrowthFrom(_, _, _, _, _)
GrowthFrom(g, stride, s, e, p) ==
    IF Pow(100 + g + stride, p) * s <= e * Pow(100, p)
    THEN GrowthFrom(g + stride, stride, s, e, p)
    ELSE g

\* A rise of less than p * s / 100 is a rate below one percent, since
\* (1 + x)^p >= 1 + p * x.
CagrFloor(s, e, p) ==
    IF e > s /\ 100 * (e - s) < s * p THEN 0
    ELSE GrowthFrom(GrowthFrom(IF e >= s THEN 0 ELSE -100, 20, s, e, p), 1, s, e, p)

\* ((e / s) ** (1 / p) - 1) * 100 for positive s, e and p.  A rate between
\* the whole percents g and g + 1 is Above(g).  A rate that is the whole
\* percent g is the float g when no operation rounds: when e = s (1.0 to
\* any power is 1.0), and when e / s and 1 / p are floats (the denominator
\* of e / s in lowest terms and p are powers of two, p at most 4) and the
\* root is taken exactly; otherwise it is Near(g) (11 on 10 over one period
\* is 10.000000000000009, 12 on 10 is 19.999999999999996, 64 on 1 over
\* three periods is 299.99999999999994).
Cagr(s, e, p) ==
    LET g == CagrFloor(s, e, p)
        whole == IF g = 0 THEN e = s ELSE Pow(100 + g, p) * s = e * Pow(100, p)
        quotient == Frac(e, s)
    IN  IF ~whole THEN Above(g)
        ELSE IF e = s THEN Num(g)
        ELSE IF p \in {1, 2, 4} /\ Gcd(1073741824, quotient[2]) = quotient[2] THEN Num(g)
        ELSE Near(g)

\* x <= 0 on a float: False for NaN.
LeZero(x) == IsNum(x) /\ x[2] <= 0

\* calculate_cagr, lines 39-42: NaN for a non-positive start, end or period
\* count ('nan <= 0' is False), else ((end / start) ** (1 / periods) - 1) *
\* 100, which is NaN when an operand is.
calculate_cagr(start_value, end_value, periods) ==
    IF LeZero(start_value) \/ LeZero(end_value) \/ periods <= 0 THEN NaN
    ELSE IF ~IsNum(start_value) \/ ~IsNum(end_value) THEN NaN
    ELSE Cagr(start_value[2], end_value[2], periods)

\* income.get(item, pd.Series([0] * num_years))
ItemSeries(present, col, n) == IF present THEN col ELSE [k \in 1..n |-> Num(0)]

\* series[-k:] of a series of at least k values.
LastK(series, k) == SubSeq(series, Len(series) - k + 1, Len(series))

\* Lines 258-276: the last min(5, num_years) values, or the last
\* min(4, num_years) when the first of those is null.
GrowthWindow(series, n) ==
    LET five == LastK(series, Min(5, n))
    IN  IF five[1] = NaN THEN LastK(series, Min(4, n)) ELSE five

\* calculate_cagr(first, last, periods) if periods > 0 else 0
GrowthMetric(series, n) ==
    LET values == GrowthWindow(series, n)
        periods == Len(values) - 1
    IN  IF periods > 0 THEN calculate_cagr(values[1], values[Len(values)], periods)
        ELSE Num(0)

StatementValues == {NaN, Num(-2), Num(0), Num(1), Num(2), Num(4)}

CagrPeriods == -2..4

NoArgs == [start_value |-> Num(0), end_value |-> Num(0), periods |-> 0]

CagrIdle ==
    /\ cpc = "idle"
    /\ cagr_args = NoArgs
    /\ num_years = 0
    /\ has_item = FALSE
    /\ column = <<>>
    /\ cagr_result = IdleValue

\* Either calculate_cagr is called directly, or a growth metric is computed
\* from an income statement of 1..MaxYears years.  Beside the small values,
\* earnings per share of 200 and 201 give a rise of half a percent or less a
\* year, and values of 10 and 11, 10 and 12, 100 and 121, and 1 and 64 a
\* whole rate that the float misses.
CagrInit ==
    /\ cagr_result = NoValue
    /\ \/ /\ cpc = "call_cagr"
          /\ cagr_args \in [start_value : StatementValues, end_value : StatementValues,
                            periods : CagrPeriods]
                           \cup {[start_value |-> Num(200), end_value |-> Num(201),
                                  periods |-> p] : p \in 1..4}
                           \cup {[start_value |-> Num(201), end_value |-> Num(200),
                                  periods |-> 1],
                                 [start_value |-> Num(10), end_value |-> Num(11),
                                  periods |-> 1],
                                 [start_value |-> Num(10), end_value |-> Num(12),
                                  periods |-> 1],
                                 [start_value |-> Num(100), end_value |-> Num(121),
                                  periods |-> 2],
                                 [start_value |-> Num(1), end_value |-> Num(64),
                                  periods |-> 3]}
          /\ num_years = 0
          /\ has_item = FALSE
          /\ column = <<>>
       \/ /\ cpc = "call_metric"
          /\ cagr_args = NoArgs
          /\ num_years \in 1..MaxYears
          /\ has_item \in BOOLEAN
          /\ IF has_item THEN column \in [1..num_years -> StatementValues]
                                    \cup {[k \in 1..num_years |->
                                              Num(IF k = num_years THEN 201 ELSE 200)],
                                          [k \in 1..num_years |->
                                              Num(IF k = num_years THEN 11 ELSE 10)]}
                         ELSE column = <<>>

CalculateCagr ==
    /\ cpc = "call_cagr"
    /\ cagr_result' = calculate_cagr(cagr_args.start_value, cagr_args.end_value,
                                     cagr_args.periods)
    /\ cpc' = "returned_cagr"
    /\ UNCHANGED <<cagr_args, num_years, has_item, column>>
    /\ UNCHANGED notCagr

ComputeGrowthMetric ==
    /\ cpc = "call_metric"
    /\ cagr_result' = GrowthMetric(ItemSeries(has_item, column, num_years), num_years)
    /\ cpc' = "returned_metric"
    /\ UNCHANGED <<cagr_args, num_years, has_item, column>>
    /\ UNCHANGED notCagr

CagrNext == CalculateCagr \/ ComputeGrowthMetric

\* ------------------------------------------------------------------------
\* Valuation framework: src/valuation_framework.py
\* ------------------------------------------------------------------------

ScaleF(a, k) == Frac(a[1] * k, a[2])

DivF(a, k) == Frac(a[1], a[2] * k)

GeF(a, b) == a[1] * b[2] >= b[1] * a[2]

\* The weights, in hundredths.
GrahamWeight == 40

DamodaranWeight == 35

BuffettWeight == 25

\* if current_price > 0 and dcf_value > 0
DcfScored(dcf, price) == dcf # Absent /\ price > 0 /\ dcf[2] > 0

\* dcf_margin = (dcf_value - current_price) / dcf_value;
\* dcf_score = min(1.0, max(0.0, dcf_margin + 0.5)).
DcfScore(dcf_value, price) ==
    LET shifted == Frac(3 * dcf_value - 2 * price, 2 * dcf_value)
    IN  IF GeF(Frac(0, 1), shifted) THEN Frac(0, 1)
        ELSE IF GeF(shifted, Frac(1, 1)) THEN Frac(1, 1)
        ELSE shifted

\* Faulty variant of total_weight: every weight counted, available or not.
TotalWeightAll(graham, dcf, buffett, price) ==
    GrahamWeight + DamodaranWeight + BuffettWeight

\* total_weight: the weights of the components that entered the sum.
TotalWeight(graham, dcf, buffett, price) ==
    (IF graham # Absent THEN GrahamWeight ELSE 0)
    + (IF DcfScored(dcf, price) THEN DamodaranWeight ELSE 0)
    + (IF buffett # Absent THEN BuffettWeight ELSE 0)

\* composite_score before it is normalised.
WeightedSum(graham, dcf, buffett, price) ==
    AddF(AddF(IF graham # Absent THEN ScaleF(Frac(graham[2], 5), GrahamWeight)
              ELSE Frac(0, 1),
              IF DcfScored(dcf, price) THEN ScaleF(DcfScore(dcf[2], price), DamodaranWeight)
              ELSE Frac(0, 1)),
         IF buffett # Absent THEN ScaleF(Frac(buffett[2], 6), BuffettWeight)
         ELSE Frac(0, 1))

\* if total_weight > 0: composite_score = composite_score / total_weight.
\* The score is a binary float: <<n, d, rounding>> is the float nearest to
\* n/d when the products, sums and the quotient round to it ("exact"), and
\* the float next below it when they fall short ("below": a DCF value of 10
\* at a price of 7 alone gives 0.7999999999999999 for 4/5).  A sum of zeros
\* is 0.0 whatever the rounding.
CompositeScore(graham, dcf, buffett, price, rounding) ==
    LET total_weight == TotalWeight(graham, dcf, buffett, price)
        weighted == WeightedSum(graham, dcf, buffett, price)
        score == IF total_weight > 0 THEN DivF(weighted, total_weight) ELSE weighted
    IN  <<score[1], score[2], IF score[1] = 0 THEN "exact" ELSE rounding>>

\* composite_score >= threshold on the float score.
GeFloat(score, threshold) ==
    IF score[1] * threshold[2] = threshold[1] * score[2]
    THEN score[3] = "exact"
    ELSE GeF(score, threshold)

ValuationRecommendation(score) ==
    IF GeFloat(score, Frac(8, 10)) THEN "Strong Buy"
    ELSE IF GeFloat(score, Frac(6, 10)) THEN "Buy"
    ELSE IF GeFloat(score, Frac(4, 10)) THEN "Hold"
    ELSE IF GeFloat(score, Frac(2, 10)) THEN "Sell"
    ELSE "Strong Sell"

\* graham_score is k/5 with two criteria always met, buffett_score is k/6
\* with one criterion always met.
GrahamScores == {Absent, Num(2), Num(3), Num(4), Num(5)}

BuffettScores == {Absent, Num(1), Num(2), Num(3), Num(4), Num(5), Num(6)}

DcfValues == {Absent, Num(-50), Num(0), Num(40), Num(50), Num(100), Num(120), Num(125),
              Num(200), Num(250), Num(1000)}

CurrentPrices == {0, 100}

ValIdle ==
    /\ vpc = "idle"
    /\ graham_score = Absent
    /\ per_share_value = Absent
    /\ buffett_score = Absent
    /\ current_price = 0
    /\ composite_score = <<0, 1, "exact">>
    /\ valuation = "idle"

ValInit ==
    /\ vpc = "call"
    /\ graham_score \in GrahamScores
    /\ per_share_value \in DcfValues
    /\ buffett_score \in BuffettScores
    /\ current_price \in CurrentPrices
    /\ composite_score = <<0, 1, "exact">>
    /\ valuation = "none"

CalculateCompositeValuation ==
    /\ vpc = "call"
    /\ \E rounding \in FloatRoundings :
         composite_score' = CompositeScore(graham_score, per_share_value, buffett_score,
                                           current_price, rounding)
    /\ valuation' = ValuationRecommendation(composite_score')
    /\ vpc' = "returned"
    /\ UNCHANGED <<graham_score, per_share_value, buffett_score, current_price>>
    /\ UNCHANGED notVal

ValNext == CalculateCompositeValuation

\* ------------------------------------------------------------------------
\* Fundamental engine: compute_yfinance_metrics
\* ------------------------------------------------------------------------

Tables == {"income", "balance", "cashflow"}

LineItems == {"Net Income", "Stockholders Equity", "Total Assets", "Basic EPS",
              "Total Debt", "Interest Expense", "Operating Income"}

\* The yearly columns a statement can hold for a line item, by their course
\* over the years; "absent" is a table without the column.
ItemShapes(item) ==
    CASE item = "Net Income" -> {"absent", "zeros", "flat", "loss"}
      [] item = "Basic EPS" -> {"absent", "flat", "rising", "creeping"}
      [] item = "Operating Income" -> {"absent", "flat"}
      [] item = "Total Assets" -> {"absent", "zeros", "broad"}
      [] OTHER -> {"absent", "zeros", "flat"}

\* The column of a line item, oldest year first.
Column(shape, n) ==
    [k \in 1..n |-> CASE shape = "flat" -> Num(2)
                      [] shape = "rising" -> Num(k)
                      [] shape = "creeping" -> Num(IF k = n THEN 201 ELSE 200)
                      [] shape = "broad" -> Num(3)
                      [] shape = "loss" -> Num(-2)
                      [] OTHER -> Num(0)]

\* table.get(item, pd.Series([0] * num_years))
ItemColumn(stmt, item, n) == ItemSeries(stmt[item] # "absent", Column(stmt[item], n), n)

\* series.shift(1): every value moves one year later, the first is NaN.
Shift(series) == [k \in 1..Len(series) |-> IF k = 1 THEN NaN ELSE series[k - 1]]

\* series.iloc[latest] with latest = -1.
Latest(series) == series[Len(series)]

\* x != 0 on a float: True for NaN, the infinities and a growth rate between
\* 0 and 1.
NeZero(x) == x # Num(0)

\* abs(x) on a float.
AbsF(x) == IF IsNum(x) THEN Num(Abs(x[2])) ELSE x

\* x / y on numpy scalars: a zero divisor gives an infinity of the sign of x,
\* or NaN for x = 0, with a warning and without raising; x / y otherwise is
\* kept as the pair of its operands (up to rounding, so also for a divisor
\* next to y), a divisor between y and y + 1 as such.
NpDiv(x, y) ==
    IF x = NaN \/ y = NaN THEN NaN
    ELSE IF y = Num(0)
         THEN (IF x = Inf \/ Gt(x, 0) THEN Inf ELSE IF x = Num(0) THEN NaN ELSE NegInf)
    ELSE IF x = Inf THEN (IF y = Above(0) \/ Gt(y, 0) THEN Inf ELSE NegInf)
    ELSE IF y = Above(y[2]) THEN <<"ratio", x[2], y[2], "above">>
    ELSE Ratio(x[2], y[2])

\* x * 100 on the result of a division.
Times100(x) == IF x[1] = "ratio" THEN Ratio(100 * x[2], x[3]) ELSE x

\* Faulty variant of AnyTableEmpty: only the income table is tested.
OnlyIncomeEmpty(empty) == "income" \in empty

\* Line 111: any empty table.
AnyTableEmpty(empty) == empty # {}

\* Line 224: 'd/e', total debt over the equity of the year before.
DebtToEquity(total_debt, equity) ==
    IF NeZero(Latest(equity)) THEN NpDiv(total_debt, Latest(equity)) ELSE Num(0)

\* Faulty variant of InterestCoverage: the division is made unguarded.
InterestCoverageUnguarded(operating_income, interest_exp) ==
    NpDiv(operating_income, interest_exp)

\* Line 228: 'Interest coverage'.
InterestCoverage(operating_income, interest_exp) ==
    IF NeZero(interest_exp) THEN NpDiv(operating_income, interest_exp) ELSE Inf

\* Line 256: 'EY', guarded on the price alone; shares default to 1.
EarningsYield(net_income, shares, price) ==
    IF NeZero(price) THEN Times100(NpDiv(net_income, Num(shares[2] * price[2])))
    ELSE Num(0)

\* Line 278: 'PEG'.
Peg(pe, growth) == IF NeZero(growth) THEN NpDiv(pe, growth) ELSE Inf

\* Line 287: 'd/e_market', total debt over the market cap.
DebtToMarketCap(total_debt, market_cap) == NpDiv(total_debt, market_cap)

Skipped == <<"skipped", 0>>

\* Lines 417-429: the return of year k on the average of the year's and the
\* previous year's base (the year's own for the first), in percent; a null
\* income counts as 0 and a zero average is skipped.  (net_income / avg) *
\* 100 is the whole percentage itself when that is whole and net_income /
\* avg is a float, that is when its denominator in lowest terms is a power
\* of two (a divisor of 2^30); otherwise it is the percentage up to rounding
\* (31 on 200 is 15.5, 1 on 3 is 33.33333333333333).
ReturnOn(income_series, base_series, k) ==
    LET net_income == IF income_series[k] = NaN THEN Num(0) ELSE income_series[k]
        twice_avg == IF k > 1
                     THEN (IF base_series[k] = NaN \/ base_series[k - 1] = NaN THEN NaN
                           ELSE Num(base_series[k][2] + base_series[k - 1][2]))
                     ELSE (IF base_series[k] = NaN THEN NaN
                           ELSE Num(2 * base_series[k][2]))
    IN  IF twice_avg = Num(0) THEN Skipped
        ELSE IF twice_avg = NaN THEN NaN
        ELSE LET sign == IF twice_avg[2] < 0 THEN -1 ELSE 1
                 quotient == Frac(2 * sign * net_income[2], Abs(twice_avg[2]))
                 percent == Frac(200 * sign * net_income[2], Abs(twice_avg[2]))
             IN  IF percent[2] = 1 /\ Gcd(1073741824, quotient[2]) = quotient[2]
                 THEN Num(percent[1])
                 ELSE Ratio(percent[1], percent[2])

IsReturn(v) == v # Skipped /\ v # NaN

\* Lines 405-432: roa_values / roe_values over the first min(4, num_years)
\* of the last min(5, num_years) years, nulls dropped.
ReturnValues(income_series, base_series, n) ==
    LET ni == LastK(income_series, Min(5, n))
        base == LastK(base_series, Min(5, n))
    IN  SelectSeq([k \in 1..Min(4, n) |-> ReturnOn(ni, base, k)], IsReturn)

MetricKeys == {"d/e", "Interest coverage", "EY", "Earnings Growth 5yr cagr", "PEG",
               "market cap", "d/e_market", "3-5yr Average ROA (%)",
               "3-5yr Average ROE (%)", "ROE", "ROA"}

NoMetrics == [key \in MetricKeys |-> NoValue]

\* Line 442, {**metrics, **extra}: a key of the later mapping replaces the
\* same key of the earlier one.
Merged(m, extra) ==
    [key \in DOMAIN m |-> IF key \in DOMAIN extra THEN extra[key] ELSE m[key]]

\* compute_yfinance_metrics up to line 438, on tables of n rows each: the
\* error string for an empty table (lines 111-112); else
\* stock.info['longName'] raises KeyError when the provider's info has no
\* such key (line 138), and a subscript of an empty list of returns raises
\* (lines 437-438); otherwise the metrics are computed.
ComputedMetrics(empty, stmt, n, quote) ==
    IF AnyTableEmpty(empty) THEN [outcome |-> "error_string", metrics |-> NoMetrics]
    ELSE IF quote.longName = Absent THEN [outcome |-> "raised", metrics |-> NoMetrics]
    ELSE
    LET net_income == ItemColumn(stmt, "Net Income", n)
        equity == Shift(ItemColumn(stmt, "Stockholders Equity", n))
        total_debt == Latest(ItemColumn(stmt, "Total Debt", n))
        interest_exp == AbsF(Latest(ItemColumn(stmt, "Interest Expense", n)))
        operating_income == Latest(ItemColumn(stmt, "Operating Income", n))
        pe == Get(quote, "trailingPE", Inf)
        price == Get(quote, "regularMarketPrice", Num(0))
        growth == GrowthMetric(ItemColumn(stmt, "Basic EPS", n), n)
        shares_out == Get(quote, "sharesOutstanding", Num(0))
        market_cap == Num(price[2] * shares_out[2])
        roa_values == ReturnValues(net_income, ItemColumn(stmt, "Total Assets", n), n)
        roe_values == ReturnValues(net_income,
                                   ItemColumn(stmt, "Stockholders Equity", n), n)
    IN  IF roe_values = <<>> \/ roa_values = <<>>
        THEN [outcome |-> "raised", metrics |-> NoMetrics]
        ELSE [outcome |-> "computed",
              metrics |->
                  ("d/e" :> DebtToEquity(total_debt, equity))
               @@ ("Interest coverage" :> InterestCoverage(operating_income, interest_exp))
               @@ ("EY" :> EarningsYield(Latest(net_income),
                                         Get(quote, "sharesOutstanding", Num(1)), price))
               @@ ("Earnings Growth 5yr cagr" :> growth)
               @@ ("PEG" :> Peg(pe, growth))
               @@ ("market cap" :> market_cap)
               @@ ("d/e_market" :> DebtToMarketCap(total_debt, market_cap))
               @@ ("3-5yr Average ROA (%)" :> get_means(roa_values, 2))
               @@ ("3-5yr Average ROE (%)" :> get_means(roe_values, 2))
               @@ ("ROE" :> Latest(roe_values))
               @@ ("ROA" :> Latest(roa_values))]

\* compute_yfinance_metrics from line 440 on, after the metrics computed so
\* far: dict(stock.major_holders)['Value'] is the series of the holders,
\* raises KeyError on a table without a 'Value' column, or the fetch of the
\* table raises (line 440); stock.analyst_price_targets is a mapping, or
\* None, which '**' cannot unpack (lines 441-442); both are merged into the
\* metrics under the keys the provider gives them (the four holder
\* breakdowns and the five target prices, none of them a metric's key), and
\* the mapping is returned (line 483).  major_holders and
\* analyst_price_targets are "unread" when the call ended before reading
\* them.
compute_yfinance_metrics(computed, holders, targets) ==
    LET major_holders_dict ==
            [key \in {"insidersPercentHeld", "institutionsPercentHeld",
                      "institutionsFloatPercentHeld", "institutionsCount"} |-> Num(1)]
        price_targets ==
            [key \in {"current", "low", "high", "mean", "median"} |-> Num(100)]
    IN  IF computed.outcome # "computed"
        THEN [outcome |-> computed.outcome, metrics |-> NoMetrics,
              major_holders |-> "unread", analyst_price_targets |-> "unread"]
        ELSE IF holders # "series"
        THEN [outcome |-> "raised", metrics |-> NoMetrics,
              major_holders |-> holders, analyst_price_targets |-> "unread"]
        ELSE IF targets # "mapping"
        THEN [outcome |-> "raised", metrics |-> NoMetrics,
              major_holders |-> holders, analyst_price_targets |-> targets]
        ELSE [outcome |-> "returned",
              metrics |-> Merged(Merged(computed.metrics, major_holders_dict),
                                 price_targets),
              major_holders |-> holders, analyst_price_targets |-> targets]

QuotePrices == {Absent, Num(0), Num(100)}

QuoteShares == {Absent, Num(0), Num(10)}

QuoteEarningsMultiples == {Absent, Num(15)}

AllAbsent == [item \in LineItems |-> "absent"]

MetricIdle ==
    /\ xpc = "idle"
    /\ empty_tables = {}
    /\ n_years = 0
    /\ statement = AllAbsent
    /\ info = [longName |-> Absent, regularMarketPrice |-> Absent,
               sharesOutstanding |-> Absent, trailingPE |-> Absent]
    /\ major_holders = "idle"
    /\ analyst_price_targets = "idle"
    /\ metrics = NoMetrics

\* The tables have as many rows as the provider has years (none when the
\* income table is empty); an empty table has no columns.  The provider's
\* info holds the company name or not, as it holds each quote field or not.
MetricInit ==
    /\ xpc = "call"
    /\ empty_tables \in SUBSET Tables
    /\ n_years \in 0..MaxYears
    /\ n_years = 0 <=> "income" \in empty_tables
    /\ IF empty_tables # {} THEN statement = AllAbsent
       ELSE \E net_income \in ItemShapes("Net Income"),
               equity \in ItemShapes("Stockholders Equity"),
               assets \in ItemShapes("Total Assets"),
               eps \in ItemShapes("Basic EPS"),
               debt \in ItemShapes("Total Debt"),
               interest \in ItemShapes("Interest Expense"),
               operating \in ItemShapes("Operating Income") :
                statement = ("Net Income" :> net_income)
                         @@ ("Stockholders Equity" :> equity)
                         @@ ("Total Assets" :> assets)
                         @@ ("Basic EPS" :> eps)
                         @@ ("Total Debt" :> debt)
                         @@ ("Interest Expense" :> interest)
                         @@ ("Operating Income" :> operating)
    /\ info \in [longName : {Absent, <<"name", 0>>}, regularMarketPrice : QuotePrices,
                 sharesOutstanding : QuoteShares, trailingPE : QuoteEarningsMultiples]
    /\ major_holders = "unread"
    /\ analyst_price_targets = "unread"
    /\ metrics = NoMetrics

\* The holders and the price targets are what the provider answers when
\* the call reads them: the table of the holders, a table without a 'Value'
\* column or a failed fetch (line 440), and, once the holders are read, a
\* mapping of price targets or None (line 441); a call that ends earlier
\* reads neither.
ComputeYfinanceMetrics ==
    /\ xpc = "call"
    /\ \E computed \in {ComputedMetrics(empty_tables, statement, n_years, info)} :
       \E holders \in IF computed.outcome = "computed"
                      THEN {"series", "no_value_column", "raise"} ELSE {"unread"} :
       \E targets \in IF holders = "series" THEN {"mapping", "None"} ELSE {"unread"} :
          LET r == compute_yfinance_metrics(computed, holders, targets)
          IN  /\ xpc' = r.outcome
              /\ metrics' = r.metrics
              /\ major_holders' = r.major_holders
              /\ analyst_price_targets' = r.analyst_price_targets
    /\ UNCHANGED <<empty_tables, n_years, statement, info>>
    /\ UNCHANGED notMetric

MetricNext == ComputeYfinanceMetrics

\* ------------------------------------------------------------------------
\* Single indicator calls: agents/technical_analysis_agent/technical_analysis.py
\* ------------------------------------------------------------------------
\* calculate_moving_averages, line 76: the window of SMA_20.
SmaEntryWindow == 20

\* Numbers of bars of the histories handed to analyze_moving_averages: empty, one bar,
\* one bar short of each rolling window, and each rolling window filled.
MaHistoryLengths == {0, 1, SmaEntryWindow - 1, SmaEntryWindow, SmaShortWindow - 1,
                     SmaShortWindow, SmaLongWindow - 1, SmaLongWindow}

\* Faulty variant of MaDist: the percentage is computed whatever the average is, so an
\* undefined average gives a float nan.
MaDistUnguarded(price, sma) ==
    IF sma = NaN THEN NaN ELSE Ratio((price[2] - sma[2]) * 100, sma[2])

\* analyze_moving_averages, lines 108-110: the distance of the price from an average in
\* per cent, None where the average is undefined (pd.notna is false).
MaDist(price, sma) ==
    IF sma = NaN THEN NoneValue ELSE Ratio((price[2] - sma[2]) * 100, sma[2])

\* analyze_moving_averages, lines 116-125: the entry signal.  The chained comparison
\* -2 <= dist_20 <= 5 is a TypeError when dist_20 is None.
MaSignal(score, dist_20) ==
    IF score = 3
    THEN IF dist_20 = NoneValue THEN "raised"
         ELSE IF -2 * dist_20[3] <= dist_20[2] /\ dist_20[2] <= 5 * dist_20[3]
              THEN "BUY - Ideal pullback entry"
         ELSE IF dist_20[2] > 5 * dist_20[3] THEN "WAIT - Extended above MA"
         ELSE "STRONG BUY - At MA support"
    ELSE IF score = 2 THEN "WAIT - Partial trend"
    ELSE "AVOID"

\* analyze_moving_averages, lines 86-141, on the latest row f of the frame.
analyze_moving_averages(f) ==
    IF f.bars = 0 THEN [returned |-> "None"]
    ELSE LET score == MaScore(f.close, f.sma_50, f.sma_200)
             dist_20 == MaDist(f.close, f.sma_20)
             signal == MaSignal(score, dist_20)
         IN  IF signal = "raised" THEN [returned |-> "raised"]
             ELSE [returned |-> "dict",
                   dist_from_20 |-> dist_20,
                   dist_from_50 |-> MaDist(f.close, f.sma_50),
                   dist_from_200 |-> MaDist(f.close, f.sma_200),
                   score |-> score,
                   max_score |-> 3,
                   signal |-> signal]

\* The frames analyze_moving_averages is called with, after calculate_moving_averages
\* (lines 63-84): a rolling mean is undefined until its window is filled, and a window
\* that holds an undefined close makes every longer window undefined too.
MaFrames ==
    {f \in [bars : MaHistoryLengths, close : ClosePrices \cup {NoValue},
            sma_20 : AverageLevels, sma_50 : AverageLevels, sma_200 : AverageLevels] :
        /\ (f.bars = 0) = (f.close = NoValue)
        /\ WindowFilled(f.sma_20, f.bars, SmaEntryWindow)
        /\ WindowFilled(f.sma_50, f.bars, SmaShortWindow)
        /\ WindowFilled(f.sma_200, f.bars, SmaLongWindow)
        /\ f.sma_20 = NaN => f.sma_50 = NaN
        /\ f.sma_50 = NaN => f.sma_200 = NaN}

\* The longest MACD history examined.
MaxMacdBars == 12

\* analyze_macd, line 203: the backward scan visits i = 1 .. min(ScanBound, len(df)) - 1.
ScanBound == 11

\* analyze_macd, line 213: a crossover at most this many bars ago is fresh.
FreshDays == 5

\* A row of the frame is <<MACD, MACD_signal>>; calculate_macd (line 169) sets
\* MACD_hist = MACD - MACD_signal.
Hist(row) == row[1] - row[2]

\* MACD > MACD_signal on a row (lines 195 and 204).
Bullish(row) == row[1] > row[2]

\* df.iloc[-k] of the rows.
Iloc(rows, k) == rows[Len(rows) + 1 - k]

\* Faulty variant of CrossoverScan: without the break the oldest crossover in reach is
\* the one reported.
RECURSIVE CrossoverScanNoBreak(_, _)
CrossoverScanNoBreak(rows, k) ==
    IF k >= Min(ScanBound, Len(rows)) THEN NoneValue
    ELSE LET older == CrossoverScanNoBreak(rows, k + 1)
         IN  IF older # NoneValue THEN older
             ELSE IF Bullish(Iloc(rows, k)) /\ ~Bullish(Iloc(rows, k + 1)) THEN Num(k)
             ELSE NoneValue

\* analyze_macd, lines 201-207: the loop from i = k on; crossover_days_ago is the first i
\* whose bar is bullish while the bar before it is not, None when the loop ends without.
RECURSIVE CrossoverScan(_, _)
CrossoverScan(rows, k) ==
    IF k >= Min(ScanBound, Len(rows)) THEN NoneValue
    ELSE IF Bullish(Iloc(rows, k)) /\ ~Bullish(Iloc(rows, k + 1)) THEN Num(k)
    ELSE CrossoverScan(rows, k + 1)

\* Faulty variant of MacdSignal: the growing histogram is tested before the crossover.
MacdSignalGrowthFirst(bullish_crossover, crossover_days_ago, hist_growing) ==
    IF bullish_crossover /\ hist_growing THEN "BUY - Momentum building"
    ELSE IF /\ bullish_crossover /\ crossover_days_ago # NoneValue
            /\ crossover_days_ago[2] <= FreshDays
         THEN "STRONG BUY - Fresh crossover"
    ELSE IF bullish_crossover THEN "HOLD - Bullish but watch for weakening"
    ELSE "AVOID - Bearish momentum"

\* analyze_macd, lines 213-220: the signal; the number of days that the first signal
\* text carries is the crossover_days_ago of the same mapping.
MacdSignal(bullish_crossover, crossover_days_ago, hist_growing) ==
    IF /\ bullish_crossover /\ crossover_days_ago # NoneValue
       /\ crossover_days_ago[2] <= FreshDays
    THEN "STRONG BUY - Fresh crossover"
    ELSE IF bullish_crossover /\ hist_growing THEN "BUY - Momentum building"
    ELSE IF bullish_crossover THEN "HOLD - Bullish but watch for weakening"
    ELSE "AVOID - Bearish momentum"

\* analyze_macd, lines 173-235, on the rows of the frame, oldest first.
analyze_macd(rows) ==
    IF Len(rows) = 0 THEN [returned |-> "None"]
    ELSE IF Len(rows) = 1 THEN [returned |-> "raised"]
    ELSE LET latest == Iloc(rows, 1)
             prev == Iloc(rows, 2)
             bullish_crossover == Bullish(latest)
             hist_growing == Hist(latest) > Hist(prev)
             crossover_days_ago == CrossoverScan(rows, 1)
         IN  [returned |-> "dict",
              bullish_crossover |-> bullish_crossover,
              histogram_growing |-> hist_growing,
              recent_crossover |-> crossover_days_ago # NoneValue,
              crossover_days_ago |-> crossover_days_ago,
              score |-> MacdScore(latest[1], latest[2]),
              max_score |-> 3,
              signal |-> MacdSignal(bullish_crossover, crossover_days_ago, hist_growing)]

\* Rows of the two latest bars: bullish below and above zero, level, bearish.
RecentRows == {<<-1, -2>>, <<-1, 0>>, <<0, 0>>, <<1, 0>>, <<2, 0>>}

\* Rows of the bars before them: MACD equal to its signal, or above it.
OlderRows == {<<0, 0>>, <<1, 0>>}

\* The frames analyze_macd is called with: no row, one row, or up to MaxMacdBars rows,
\* oldest first.
IsMacdFrame(f) ==
    \/ f = [rows |-> <<>>]
    \/ \E r \in RecentRows : f = [rows |-> <<r>>]
    \/ \E n \in 0..(MaxMacdBars - 2) :
          \E older \in [1..n -> OlderRows], p \in RecentRows, l \in RecentRows :
              f = [rows |-> older \o <<p, l>>]

\* The most pivots of one kind in a frame.
MaxPivots == 2

\* analyze_support_resistance, lines 493 and 496: the highest pivot support strictly below
\* the price, the 60-bar low when there is none.
NearestSupport(price, support_levels, support_60) ==
    LET support_below == {s \in support_levels : s < price[2]}
    IN  IF support_below # {}
        THEN Num(CHOOSE s \in support_below : \A o \in support_below : o <= s)
        ELSE support_60

\* analyze_support_resistance, lines 492 and 495: the lowest pivot resistance strictly
\* above the price, the 60-bar high when there is none.
NearestResistance(price, resistance_levels, resistance_60) ==
    LET resistance_above == {r \in resistance_levels : r > price[2]}
    IN  IF resistance_above # {}
        THEN Num(CHOOSE r \in resistance_above : \A o \in resistance_above : r <= o)
        ELSE resistance_60

\* analyze_support_resistance, lines 499-500: a distance in per cent of the price, nan
\* when the level is.
SrDist(gap_from, gap_to, price) ==
    IF IsNum(gap_from) /\ IsNum(gap_to) THEN Ratio((gap_to[2] - gap_from[2]) * 100, price[2])
    ELSE NaN

\* d < c and d > c for a distance d and a whole percentage c; False for nan.
PctLt(d, c) == d # NaN /\ d[2] < c * d[3]

PctGt(d, c) == d # NaN /\ d[2] > c * d[3]

\* analyze_support_resistance, lines 507-516: the position quality.
SrSignal(dist_to_support, dist_to_resistance) ==
    LET at_support == PctLt(dist_to_support, 2)
        near_resistance == PctLt(dist_to_resistance, 2)
    IN  IF at_support /\ PctGt(dist_to_resistance, 5)
        THEN "STRONG BUY - At support with room to resistance"
        ELSE IF at_support THEN "BUY - At support but near resistance"
        ELSE IF near_resistance THEN "WAIT - Near resistance, likely pullback"
        ELSE IF /\ PctGt(dist_to_support, 3) /\ PctLt(dist_to_support, 8)
                /\ PctGt(dist_to_resistance, 5)
             THEN "BUY - Good risk/reward setup"
        ELSE "NEUTRAL - No clear level nearby"

\* analyze_support_resistance, lines 472-540, on the latest row and the pivots of f.
analyze_support_resistance(f) ==
    IF f.bars = 0 THEN [returned |-> "None"]
    ELSE LET nearest_resistance ==
                 NearestResistance(f.close, f.resistance_levels, f.resistance_60)
             nearest_support == NearestSupport(f.close, f.support_levels, f.support_60)
             dist_to_resistance == SrDist(f.close, nearest_resistance, f.close)
             dist_to_support == SrDist(nearest_support, f.close, f.close)
         IN  [returned |-> "dict",
              current_price |-> f.close,
              nearest_resistance |-> nearest_resistance,
              nearest_support |-> nearest_support,
              dist_to_resistance |-> dist_to_resistance,
              dist_to_support |-> dist_to_support,
              at_support |-> PctLt(dist_to_support, 2),
              near_resistance |-> PctLt(dist_to_resistance, 2),
              score |-> SrScore(f.close, nearest_support, nearest_resistance),
              max_score |-> 3,
              signal |-> SrSignal(dist_to_support, dist_to_resistance)]

\* The frames analyze_support_resistance is called with, after
\* calculate_support_resistance (lines 410-430) and with the clustered pivots of
\* find_pivot_points (lines 432-470): prices are positive and Low <= Close <= High on
\* every bar, so the 60-bar low is at most the close and the 60-bar high at least the
\* close; both are undefined below LevelWindow bars, and there is no pivot below
\* 2 * PivotWindow + 1 bars.
IsSrFrame(f) ==
    LET SrHistoryLengths ==
            {0, 1, 2 * PivotWindow, 2 * PivotWindow + 1, LevelWindow - 1, LevelWindow}
        PivotLows == {88, 94, 97, 99, 105}
        PivotHighs == {99, 105, 112, 116}
        LowLevels == {NaN, Num(88), Num(96), Num(99), Num(100)}
        HighLevels == {NaN, Num(110), Num(120)}
    IN  \E n \in SrHistoryLengths, c \in ClosePrices,
           lows \in SUBSET PivotLows, highs \in SUBSET PivotHighs,
           low_60 \in LowLevels, high_60 \in HighLevels :
            /\ Cardinality(lows) <= MaxPivots /\ Cardinality(highs) <= MaxPivots
            /\ n < 2 * PivotWindow + 1 => lows = {} /\ highs = {}
            /\ (n < LevelWindow) = (low_60 = NaN)
            /\ (n < LevelWindow) = (high_60 = NaN)
            /\ IsNum(low_60) => low_60[2] <= c[2]
            /\ IsNum(high_60) => high_60[2] >= c[2]
            /\ f = [bars |-> n, close |-> IF n = 0 THEN NoValue ELSE c,
                    support_levels |-> lows, resistance_levels |-> highs,
                    support_60 |-> low_60, resistance_60 |-> high_60]

NoFrame == [bars |-> 0]

NoAnalysis == [returned |-> "nothing"]

AnalyzeIdle ==
    /\ apc = "idle"
    /\ frame = NoFrame
    /\ analysis = NoAnalysis

AnalyzeInit ==
    /\ analysis = NoAnalysis
    /\ \/ apc = "call_moving_averages" /\ frame \in MaFrames
       \/ apc = "call_macd" /\ IsMacdFrame(frame)
       \/ apc = "call_support_resistance" /\ IsSrFrame(frame)

CallAnalyzeMovingAverages ==
    /\ apc = "call_moving_averages"
    /\ analysis' = analyze_moving_averages(frame)
    /\ apc' = IF analysis'.returned = "raised" THEN "raised_moving_averages"
              ELSE "returned_moving_averages"
    /\ UNCHANGED frame
    /\ UNCHANGED notAnalyze

CallAnalyzeMacd ==
    /\ apc = "call_macd"
    /\ analysis' = analyze_macd(frame.rows)
    /\ apc' = IF analysis'.returned = "raised" THEN "raised_macd" ELSE "returned_macd"
    /\ UNCHANGED frame
    /\ UNCHANGED notAnalyze

CallAnalyzeSupportResistance ==
    /\ apc = "call_support_resistance"
    /\ analysis' = analyze_support_resistance(frame)
    /\ apc' = "returned_support_resistance"
    /\ UNCHANGED frame
    /\ UNCHANGED notAnalyze

AnalyzeNext ==
    \/ CallAnalyzeSupportResistance
    \/ CallAnalyzeMovingAverages
    \/ CallAnalyzeMacd

\* ------------------------------------------------------------------------
\* Specifications
\* ------------------------------------------------------------------------
Init == BatchInit /\ RecIdle /\ FundIdle /\ TechIdle /\ PosIdle /\ MeansIdle /\ CagrIdle /\ ValIdle /\ MetricIdle /\ AnalyzeIdle

Next == BatchNext

Spec == Init /\ [][Next]_vars

\* The event loop runs every ready coroutine; nothing waits forever.
FairSpec == Init /\ [][Next]_vars /\ WF_vars(Next)

RecSpecInit == BatchIdle /\ RecInit /\ FundIdle /\ TechIdle /\ PosIdle /\ MeansIdle /\ CagrIdle /\ ValIdle /\ MetricIdle /\ AnalyzeIdle

RecNext == Recommend

RecSpec == RecSpecInit /\ [][RecNext]_vars

FundSpecInit == BatchIdle /\ RecIdle /\ FundInit /\ TechIdle /\ PosIdle /\ MeansIdle /\ CagrIdle /\ ValIdle /\ MetricIdle /\ AnalyzeIdle

FundNext == CalculateFundamentalScore

FundSpec == FundSpecInit /\ [][FundNext]_vars

TechSpecInit == BatchIdle /\ RecIdle /\ FundIdle /\ TechInit /\ PosIdle /\ MeansIdle /\ CagrIdle /\ ValIdle /\ MetricIdle /\ AnalyzeIdle

TechSpec == TechSpecInit /\ [][TechNext]_vars

PosSpecInit == BatchIdle /\ RecIdle /\ FundIdle /\ TechIdle /\ PosInit /\ MeansIdle /\ CagrIdle /\ ValIdle /\ MetricIdle /\ AnalyzeIdle

PosSpec == PosSpecInit /\ [][PosNext]_vars

MeansSpecInit == BatchIdle /\ RecIdle /\ FundIdle /\ TechIdle /\ PosIdle /\ MeansInit /\ CagrIdle /\ ValIdle /\ MetricIdle /\ AnalyzeIdle

MeansSpec == MeansSpecInit /\ [][MeansNext]_vars

CagrSpecInit ==
    /\ BatchIdle /\ RecIdle /\ FundIdle /\ TechIdle /\ PosIdle /\ MeansIdle
    /\ CagrInit /\ ValIdle /\ MetricIdle /\ AnalyzeIdle

CagrSpec == CagrSpecInit /\ [][CagrNext]_vars

ValSpecInit ==
    /\ BatchIdle /\ RecIdle /\ FundIdle /\ TechIdle /\ PosIdle /\ MeansIdle
    /\ CagrIdle /\ ValInit /\ MetricIdle /\ AnalyzeIdle

ValSpec == ValSpecInit /\ [][ValNext]_vars

MetricSpecInit ==
    /\ BatchIdle /\ RecIdle /\ FundIdle /\ TechIdle /\ PosIdle /\ MeansIdle
    /\ CagrIdle /\ ValIdle /\ MetricInit /\ AnalyzeIdle

MetricSpec == MetricSpecInit /\ [][MetricNext]_vars

\* One call of one analyze_* function of TechnicalAnalysis on a prepared frame.
AnalyzeSpecInit ==
    /\ BatchIdle /\ RecIdle /\ FundIdle /\ TechIdle /\ PosIdle /\ MeansIdle
    /\ CagrIdle /\ ValIdle /\ MetricIdle /\ AnalyzeInit

AnalyzeSpec == AnalyzeSpecInit /\ [][AnalyzeNext]_vars

\* ------------------------------------------------------------------------
\* Claims
\* ------------------------------------------------------------------------

\* C1: when the provider fetch of a ticker raises, the returned mapping has
\* one entry per ticker and the entry of the failing ticker has an 'error'
\* field (the entries of the other tickers are their own analysis results).
C1_FetchFailureIsErrorEntry ==
    pc = "done" =>
        /\ DOMAIN results = Range(tickers)
        /\ \A t \in Range(tickers) : provider[t] = "raise" => results[t].error

\* C2: for every ticker list, batch size and combination of per-ticker
\* successes and failures, analyze_multiple_stocks terminates, and what it
\* returns has exactly one entry, keyed and labelled by the ticker, for each
\* distinct input ticker.
C2_TerminatesWithFullMapping ==
    <>[](/\ pc = "done"
         /\ DOMAIN results = Range(tickers)
         /\ \A t \in DOMAIN results : results[t].ticker = t)

C2_Witness ==
    /\ pc = "done"
    /\ Len(tickers) = 3
    /\ Cardinality(Range(tickers)) = 2
    /\ \E t \in DOMAIN results : results[t].error
    /\ \E t \in DOMAIN results : results[t].fun /\ results[t].tech

\* C3: batches run strictly one after the other: a task is in flight only
\* if it belongs to the current batch and every task of the earlier batches
\* has finished, so at most batch_size tickers are in flight at any moment.
InFlight == {k \in DOMAIN tickers : task[k].st \in {"fetch", "engines"}}

C3_BatchesSequential ==
    /\ Cardinality(InFlight) <= batch_size
    /\ \A k \in InFlight :
          /\ i < k /\ k <= i + batch_size
          /\ \A j \in 1..i : task[j].st = "finished"

C3_Witness ==
    /\ batch_size = 2
    /\ i = 2
    /\ Cardinality(InFlight) = 1
    /\ task[1].st = "finished" /\ task[2].st = "finished"

\* C4: the recommendation is decided from (fundamental score, technical
\* score) in priority order with inclusive bounds: fund >= 70 and tech >= 67
\* is STRONG BUY, else fund >= 70 and tech >= 50 is BUY WITH CAUTION, else
\* fund >= 50 and tech >= 67 is WAIT, else AVOID (whenever a recommendation
\* is made).
C4_RecommendationLadder ==
    recommendation \notin {"none", "idle", "raised", "returned None"} =>
        /\ recommendation = "STRONG BUY" <=> (fund_score >= 70 /\ tech_score >= 67)
        /\ recommendation = "BUY WITH CAUTION" <=>
              (fund_score >= 70 /\ tech_score >= 50 /\ tech_score < 67)
        /\ recommendation = "WAIT" <=>
              (fund_score >= 50 /\ fund_score < 70 /\ tech_score >= 67)
        /\ recommendation = "AVOID" <=>
              (fund_score < 50 \/ tech_score < 50 \/ (fund_score < 70 /\ tech_score < 67))
        /\ (fund_score = 75 /\ tech_score = 70) => recommendation = "STRONG BUY"
        /\ (fund_score = 75 /\ tech_score = 55) => recommendation = "BUY WITH CAUTION"
        /\ (fund_score = 55 /\ tech_score = 70) => recommendation = "WAIT"
        /\ (fund_score = 40 /\ tech_score = 40) => recommendation = "AVOID"

C4_Witness ==
    /\ fund_score = 70
    /\ tech_score = 67
    /\ recommendation = "STRONG BUY"

\* The eight values of the scenario: ROE=18, ROCE=16, NPM=12, d/e_market=0.3,
\* Interest coverage=5, p/e=12, EY=8, cCFO/cPAT=1.2 (in tenths).
EightValues ==
    /\ fund_result["ROE"] = Num(180)
    /\ fund_result["ROCE"] = Num(160)
    /\ fund_result["NPM"] = Num(120)
    /\ fund_result["d/e_market"] = Num(3)
    /\ fund_result["Interest coverage"] = Num(50)
    /\ fund_result["p/e"] = Num(120)
    /\ fund_result["EY"] = Num(80)
    /\ fund_result["cCFO/cPAT"] = Num(12)

\* No missing field, positive values throughout.
CleanPositive ==
    \A key \in DOMAIN fund_result : IsNum(fund_result[key]) /\ fund_result[key][2] > 0

\* C5 as stated: with clean positive financials and the eight values the
\* fundamental score is 100.
C5_EightValuesScore100 ==
    (fscore # NoValue /\ fscore # IdleValue /\ CleanPositive /\ EightValues) => fscore = Num(100)

\* C5 as amended: the eight values earn the full marks of their own eight
\* checks, 75 points; the score is 75 plus what the two growth CAGRs and CFO
\* earn, and 100 exactly when both CAGRs exceed 15 and CFO is positive.
C5_EightValuesScore75Plus ==
    (fscore # NoValue /\ fscore # IdleValue /\ EightValues) =>
        /\ IsNum(fscore)
        /\ fscore[2] >= 75
        /\ fscore[2] <= 100
        /\ fscore[2] = 100 <=>
              /\ Gt(Get(fund_result, "Earnings Growth 5yr cagr", Num(0)), 15 * MetricScale)
              /\ Gt(Get(fund_result, "Sales Growth 5yr cagr", Num(0)), 15 * MetricScale)
              /\ Gt(Get(fund_result, "CFO", Num(0)), 0)
        /\ fscore[2] = 75 <=>
              /\ ~Gt(Get(fund_result, "Earnings Growth 5yr cagr", Num(0)), 5 * MetricScale)
              /\ ~Gt(Get(fund_result, "Sales Growth 5yr cagr", Num(0)), 5 * MetricScale)
              /\ ~Gt(Get(fund_result, "CFO", Num(0)), 0)

C5_Witness ==
    /\ EightValues
    /\ CleanPositive
    /\ fscore = Num(100)

TechKeys == {"moving_averages", "macd", "rsi", "vwma", "support_resistance"}

\* C6: each of the five indicator sub-scores lies in 0..3, their sum lies in
\* 0..15, and the overall signal is STRONG BUY exactly for pct >= 67 (sums
\* 11..15), WAIT exactly for 50 <= pct < 67 (sums 8..10) and AVOID exactly
\* for pct < 50 (sums 0..7), where pct = sum/15*100.
C6_TechnicalScoreAndSignal ==
    /\ DOMAIN sub \subseteq TechKeys
    /\ \A k \in DOMAIN sub : sub[k] \in 0..3
    /\ tpc = "done" =>
          /\ DOMAIN sub = TechKeys
          /\ total_score = sub["moving_averages"] + sub["macd"] + sub["rsi"]
                           + sub["vwma"] + sub["support_resistance"]
          /\ total_score \in 0..15
          /\ overall_signal = "STRONG BUY" <=> total_score \in 11..15
          /\ overall_signal = "WAIT" <=> total_score \in 8..10
          /\ overall_signal = "AVOID" <=> total_score \in 0..7
          /\ overall_signal = "STRONG BUY" <=> total_score * 100 >= 67 * 15
          /\ overall_signal = "WAIT" <=>
                (total_score * 100 >= 50 * 15 /\ total_score * 100 < 67 * 15)
          /\ overall_signal = "AVOID" <=> total_score * 100 < 50 * 15

C6_Witness ==
    /\ tpc = "done"
    /\ sub["support_resistance"] = 3
    /\ total_score = 11
    /\ overall_signal = "STRONG BUY"

\* C7: calculate_position_size called with stop_loss_price >= entry_price
\* returns the error result with 0 shares and position value 0, whatever the
\* portfolio value and the risk percent; it does not raise and the share
\* count is not negative.
C7_StopNotBelowEntryIsError ==
    (ppc \in {"returned", "raised"} /\ pos_args.stop_loss_price >= pos_args.entry_price) =>
        /\ ppc = "returned"
        /\ pos_result.status = "error"
        /\ pos_result.shares = 0
        /\ pos_result.position_value = 0

C7_Witness ==
    /\ ppc = "returned"
    /\ pos_args.stop_loss_price = pos_args.entry_price
    /\ pos_args.portfolio_value < 0
    /\ pos_result.status = "error"

\* The entries of num_list that are neither None nor NaN, by position.
ValidPositions == {k \in DOMAIN num_list : num_list[k] \notin {NoneValue, NaN}}

RECURSIVE SumAt(_)
SumAt(ks) ==
    IF ks = {} THEN 0
    ELSE LET k == CHOOSE x \in ks : TRUE IN num_list[k][2] + SumAt(ks \ {k})

\* C8: get_means discards the None/NaN entries and returns the mean of the
\* remaining ones only when at least min_n remain; with fewer (one or none
\* for min_n = 2) it returns the sentinel -1; it does not raise.
C8_MeanNeedsMinSamples ==
    mpc \in {"returned", "raised"} =>
        /\ mpc = "returned"
        /\ Cardinality(ValidPositions) < min_n => mean_result = Sentinel
        /\ mean_result # Sentinel => Cardinality(ValidPositions) >= min_n
        /\ (Cardinality(ValidPositions) >= min_n
            /\ \A k \in ValidPositions : IsNum(num_list[k])) =>
              mean_result = Ratio(SumAt(ValidPositions), Cardinality(ValidPositions))

C8_Witness ==
    /\ mpc = "returned"
    /\ min_n = 2
    /\ num_list = <<NaN, Num(5), NoneValue>>
    /\ mean_result = Sentinel

\* The values the growth metric is computed from: the statement's column, or
\* zeros when the statement lacks it; the position of the window's first
\* value; the period count.
MetricSeries == IF has_item THEN column ELSE [k \in 1..num_years |-> Num(0)]

WindowStart ==
    IF num_years < 5 THEN 1
    ELSE IF MetricSeries[num_years - 4] = NaN THEN num_years - 3
    ELSE num_years - 4

WindowPeriods == num_years - WindowStart

NonPositive(x) == x[1] = "num" /\ x[2] <= 0

\* Direct calls: a non-positive start, end or period count gives NaN.
CagrNaNOnNonPositive ==
    cpc = "returned_cagr" =>
        /\ (\/ NonPositive(cagr_args.start_value)
            \/ NonPositive(cagr_args.end_value)
            \/ cagr_args.periods <= 0) => cagr_result = NaN
        /\ (/\ IsNum(cagr_args.start_value) /\ ~NonPositive(cagr_args.start_value)
            /\ IsNum(cagr_args.end_value) /\ ~NonPositive(cagr_args.end_value)
            /\ cagr_args.periods > 0) => IsNum(cagr_result)

\* C9: calculate_cagr gives NaN whenever the start value, the end
\* value or the period count is non-positive, and so do the two growth
\* metrics, the single-period case (period count 0) included.
C9_NaNOnNonPositive ==
    /\ CagrNaNOnNonPositive
    /\ cpc = "returned_metric" =>
          ((\/ NonPositive(MetricSeries[WindowStart])
            \/ NonPositive(MetricSeries[num_years])
            \/ WindowPeriods <= 0) => cagr_result = NaN)

\* The components available to the composite, and the weight and the score
\* (as a fraction) of each.
Available ==
    (IF graham_score # Absent THEN {"graham"} ELSE {})
    \cup (IF per_share_value # Absent /\ current_price > 0 /\ per_share_value[2] > 0
          THEN {"dcf"} ELSE {})
    \cup (IF buffett_score # Absent THEN {"buffett"} ELSE {})

WeightOf(c) == CASE c = "graham" -> 40 [] c = "dcf" -> 35 [] c = "buffett" -> 25

ScoreOf(c) ==
    CASE c = "graham" -> <<graham_score[2], 5>>
      [] c = "buffett" -> <<buffett_score[2], 6>>
      [] c = "dcf" ->
            IF per_share_value[2] >= 2 * current_price THEN <<1, 1>>
            ELSE IF 3 * per_share_value[2] <= 2 * current_price THEN <<0, 1>>
            ELSE Frac(3 * per_share_value[2] - 2 * current_price, 2 * per_share_value[2])

\* sum over the available components c of WeightOf(c) * (ScoreOf(c) - score),
\* on the common denominator 30 * ScoreOf("dcf")[2] * score[2]: zero exactly
\* when score is the weighted average of the available components.
RECURSIVE WeightedDeviation(_, _)
WeightedDeviation(cs, score) ==
    IF cs = {} THEN 0
    ELSE LET c == CHOOSE x \in cs : TRUE
             sc == ScoreOf(c)
             common == 30 * (IF "dcf" \in Available THEN ScoreOf("dcf")[2] ELSE 1)
         IN  WeightOf(c) * (sc[1] * score[2] - score[1] * sc[2]) * (common \div sc[2])
             + WeightedDeviation(cs \ {c}, score)

\* The float composite_score is at least tenths/10: its decimal value is
\* above it, or equal to it and not rounded below.
ScoreAtLeast(tenths) ==
    \/ 10 * composite_score[1] > tenths * composite_score[2]
    \/ /\ 10 * composite_score[1] = tenths * composite_score[2]
       /\ composite_score[3] = "exact"

\* C10: the composite score is the weighted average (Graham 0.4, DCF 0.35,
\* Buffett 0.25) over the available components only, a missing component
\* leaving both the weighted sum and the total weight; the recommendation is
\* Strong Buy at >= 0.8, Buy at >= 0.6, Hold at >= 0.4, Sell at >= 0.2 and
\* Strong Sell below.
C10_CompositeOverAvailable ==
    vpc = "returned" =>
        /\ composite_score[2] > 0
        /\ Available # {} => WeightedDeviation(Available, composite_score) = 0
        /\ Available = {} => composite_score[1] = 0
        /\ valuation = "Strong Buy" <=> ScoreAtLeast(8)
        /\ valuation = "Buy" <=> (ScoreAtLeast(6) /\ ~ScoreAtLeast(8))
        /\ valuation = "Hold" <=> (ScoreAtLeast(4) /\ ~ScoreAtLeast(6))
        /\ valuation = "Sell" <=> (ScoreAtLeast(2) /\ ~ScoreAtLeast(4))
        /\ valuation = "Strong Sell" <=> ~ScoreAtLeast(2)

C10_Witness ==
    /\ vpc = "returned"
    /\ Available = {"graham", "buffett"}
    /\ per_share_value # Absent
    /\ graham_score = Num(4)
    /\ buffett_score = Num(6)
    /\ valuation = "Strong Buy"

\* C11: compute_yfinance_metrics never surfaces an error to its caller
\* because a line item is absent from a non-empty statement table: whatever
\* subset of the line items is absent (the present ones holding non-zero
\* values), when the provider names the company and no read of the holders
\* or the price targets failed, the call returns a metrics mapping with
\* every metric set.
C11_AbsentItemsNeverRaise ==
    (/\ xpc \notin {"idle", "call"}
     /\ empty_tables = {}
     /\ \A item \in LineItems : statement[item] # "zeros"
     /\ info.longName # Absent
     /\ major_holders \in {"unread", "series"}
     /\ analyst_price_targets \in {"unread", "mapping"})
        => /\ xpc = "returned"
           /\ \A key \in MetricKeys : metrics[key] # NoValue

\* What the inner gather of analyze_stock holds for the fundamentals after a
\* call of compute_yfinance_metrics that ended in the given way.
GatheredFundamentals(ended) ==
    CASE ended = "error_string" -> "str"
      [] ended = "raised" -> "raise"
      [] OTHER -> "ok"

\* C12: when any of the three statement tables is empty,
\* compute_yfinance_metrics ends with the data-unavailable outcome and hands
\* back no metric, and whatever the technical engine did, the entry that
\* analyze_stock builds from it for the ticker is the error record, not a
\* record holding fundamentals.
C12_EmptyTableIsErrorRecord ==
    (xpc \notin {"idle", "call"} /\ empty_tables # {})
        => /\ xpc = "error_string"
           /\ metrics = NoMetrics
           /\ \A t \in Range(TickerSeq) : \A tech \in TechOutcomes("ok") :
                  LET entry == Combine(t, GatheredFundamentals(xpc), tech)
                  IN  entry = ErrorRecord(t) /\ entry.error /\ ~entry.fun

C12_Witness ==
    /\ xpc = "error_string"
    /\ empty_tables = {"cashflow"}
    /\ n_years > 0

\* The values the specification allows for a ratio over a zero denominator.
ZeroDenominatorSentinels == {Num(0), Inf}

\* C13: every ratio of a returned metrics mapping whose denominator is zero
\* is 0 or +infinity: 'Interest coverage' over a zero interest expense,
\* 'PEG' over a zero growth, 'd/e_market' over a zero market cap (price or
\* shares outstanding 0 or missing) and 'EY' over zero shares outstanding.
C13_ZeroDenominatorsGiveSentinels ==
    xpc = "returned" =>
        /\ AbsF(Latest(ItemColumn(statement, "Interest Expense", n_years))) = Num(0)
               => metrics["Interest coverage"] \in ZeroDenominatorSentinels
        /\ metrics["Earnings Growth 5yr cagr"] = Num(0)
               => metrics["PEG"] \in ZeroDenominatorSentinels
        /\ metrics["market cap"] = Num(0)
               => metrics["d/e_market"] \in ZeroDenominatorSentinels
        /\ info.sharesOutstanding = Num(0)
               => metrics["EY"] \in ZeroDenominatorSentinels

\* C14: in a returned metrics mapping 'Interest coverage' is +infinity
\* whenever the latest interest expense is 0 or its line item is absent,
\* whatever the operating income, and 'PEG' is +infinity whenever
\* 'Earnings Growth 5yr cagr' is 0, whatever the earnings multiple.
C14_InfiniteCoverageAndPeg ==
    xpc = "returned" =>
        /\ (\/ statement["Interest Expense"] = "absent"
            \/ Latest(Column(statement["Interest Expense"], n_years)) = Num(0))
               => metrics["Interest coverage"] = Inf
        /\ metrics["Earnings Growth 5yr cagr"] = Num(0) => metrics["PEG"] = Inf

C14_Witness ==
    /\ xpc = "returned"
    /\ statement["Interest Expense"] = "zeros"
    /\ statement["Operating Income"] = "absent"
    /\ metrics["Interest coverage"] = Inf
    /\ statement["Basic EPS"] = "flat"
    /\ n_years > 1
    /\ info.trailingPE = Num(15)
    /\ metrics["Earnings Growth 5yr cagr"] = Num(0)
    /\ metrics["PEG"] = Inf

\* The contribution of an analysis to the aggregate score as the
\* specification has it: 0 for a null result.
Contribution(key) == IF key \in null_results THEN 0 ELSE sub[key]

\* C15: whatever the length of the price history, an empty history and a
\* single bar included, complete_technical_analysis does not fail on a null
\* or undefined sub-result (it raises, if at all, on the benchmark fetch),
\* and the aggregate score it produces counts such a sub-result as 0.
C15_ShortHistoryStillScores ==
    /\ tpc = "raised" => spy \in {"raise", "empty"}
    /\ tpc = "done" =>
          total_score = Contribution("moving_averages") + Contribution("macd")
                        + Contribution("rsi") + Contribution("vwma")
                        + Contribution("support_resistance")

\* C16: a failed or empty SPY fetch inside analyze_market_trend does not
\* make complete_technical_analysis raise on a history of two bars or more:
\* the five indicator results and the aggregate score are still produced.
C16_MissingBenchmarkDoesNotRaise ==
    (bars >= 2 /\ spy \in {"raise", "empty"}) =>
        /\ tpc # "raised"
        /\ DOMAIN sub = TechKeys

\* The RSI of the latest bar lies in lo..hi points, bounds included.
RsiWithin(lo, hi) ==
    IsNum(latest_rsi) /\ lo * RsiScale <= latest_rsi[2] /\ latest_rsi[2] <= hi * RsiScale

\* C17: once analyze_rsi has run on a numeric RSI, 45 <= RSI <= 60 gives
\* the ideal-zone signal, any other RSI with 40 <= RSI <= 70 the
\* acceptable-zone signal, RSI > 70 the overbought signal and RSI < 40 the
\* oversold signal; 45 and 60 are ideal and 44.999 is acceptable.
C17_RsiSignalLadder ==
    (rsi_signal \notin {"idle", "none"} /\ IsNum(latest_rsi)) =>
        /\ RsiWithin(45, 60) <=> rsi_signal = "STRONG BUY - Ideal zone"
        /\ (RsiWithin(40, 70) /\ ~RsiWithin(45, 60))
               <=> rsi_signal = "BUY - Acceptable zone"
        /\ latest_rsi[2] > 70 * RsiScale
               <=> rsi_signal = "WAIT - Overbought, pullback likely"
        /\ latest_rsi[2] < 40 * RsiScale
               <=> rsi_signal = "CAUTION - Oversold, wait for bounce confirmation"
        /\ latest_rsi \in {Num(45000), Num(60000)}
               => rsi_signal = "STRONG BUY - Ideal zone"
        /\ latest_rsi = Num(44999) => rsi_signal = "BUY - Acceptable zone"

C17_Witness ==
    /\ tpc = "done"
    /\ latest_rsi = Num(44999)
    /\ rsi_signal = "BUY - Acceptable zone"
    /\ sub["rsi"] = 2

\* An engine of the task has produced its outcome.
EngineRan(t) == t.fun # "pending" \/ t.tech # "pending"

\* C18: within analyze_stock no engine of a ticker produces anything while
\* the ticker's get_stock_data is outstanding, and an engine starts only in
\* a task whose fetch has returned; after the fetch the two engines run in
\* either order.
C18_EnginesAfterFetch ==
    /\ [](\A k \in DOMAIN task : task[k].st \in {"idle", "fetch"} => ~EngineRan(task[k]))
    /\ [][\A k \in DOMAIN task :
            (k \in DOMAIN task' /\ EngineRan(task'[k]) /\ ~EngineRan(task[k]))
                => (task[k].st = "engines" /\ task[k].stock \in {"ok", "none"}
                    /\ provider[tickers[k]] # "empty")]_vars

\* Two tasks of one batch past their fetch, one with only its fundamentals
\* done and one with only its technicals done.
C18_Witness ==
    /\ pc = "gather"
    /\ \E k \in DOMAIN task, j \in DOMAIN task :
          /\ task[k].st = "engines" /\ task[j].st = "engines"
          /\ task[k].fun # "pending" /\ task[k].tech = "pending"
          /\ task[j].fun = "pending" /\ task[j].tech # "pending"

\* The last position of the current batch that holds the ticker t.
LastPositionOf(t) ==
    CHOOSE k \in Batch(tickers, i, batch_size) :
        /\ tickers[k] = t
        /\ \A j \in Batch(tickers, i, batch_size) : tickers[j] = t => j <= k

\* C19: whatever the order in which the tasks of a batch complete, every
\* entry of the mapping is labelled with its key, and when the results of a
\* batch are stored the entry of each ticker of the batch is what the
\* analysis of that ticker (of its last position in the batch) resolved to,
\* the entries of the other tickers being left as they were.
C19_ResultsKeyedByTicker ==
    /\ [](\A t \in DOMAIN results : results[t].ticker = t)
    /\ [][(pc = "gather" /\ pc' = "loop") =>
            /\ \A k \in Batch(tickers, i, batch_size) :
                   /\ tickers[k] \in DOMAIN results'
                   /\ results'[tickers[k]] = task[LastPositionOf(tickers[k])].result
                   /\ results'[tickers[k]].ticker = tickers[k]
            /\ \A t \in DOMAIN results :
                   (\A k \in Batch(tickers, i, batch_size) : tickers[k] # t)
                       => (t \in DOMAIN results' /\ results'[t] = results[t])]_vars

\* The second task of a batch has resolved, with an outcome of its own,
\* while the first is still fetching.
C19_Witness ==
    /\ pc = "gather"
    /\ batch_size >= 2
    /\ Len(tickers) >= 2
    /\ tickers[1] # tickers[2]
    /\ task[1].st = "fetch"
    /\ task[2].st = "resolved"
    /\ task[2].result = [ticker |-> tickers[2], error |-> FALSE, fun |-> TRUE,
                         tech |-> FALSE]

\* The entry of a ticker whose engines handed back the given outputs.
PartialResult(ticker, has_fun, has_tech) ==
    [ticker |-> ticker, error |-> FALSE, fun |-> has_fun, tech |-> has_tech]

\* C20: every resolved analyze_stock task has returned a record labelled
\* with its ticker; after a successful fetch, when exactly one engine raised
\* the record holds the other engine's output and no error; and when the
\* fetch itself failed, before either engine ran, the record is the error
\* record {ticker, error}.
C20_PartialResultOrErrorRecord ==
    \A k \in DOMAIN task :
        task[k].st = "resolved" =>
            /\ task[k].result.ticker = tickers[k]
            /\ (task[k].stock = "ok" /\ task[k].fun = "raise" /\ task[k].tech = "ok")
                   => task[k].result = PartialResult(tickers[k], FALSE, TRUE)
            /\ (task[k].stock = "ok" /\ task[k].fun = "ok" /\ task[k].tech = "raise")
                   => task[k].result = PartialResult(tickers[k], TRUE, FALSE)
            /\ provider[tickers[k]] # "ok" => task[k].result = ErrorRecord(tickers[k])

\* The first year of the window a growth metric asks for: the last five
\* years, or all of them when there are fewer.
RequestedStart == IF num_years < 5 THEN 1 ELSE num_years - 4

\* The CAGR over the window that starts one year after the requested one:
\* NaN when that leaves no period.
NarrowedGrowth ==
    calculate_cagr(column[RequestedStart + 1], column[num_years],
                   num_years - RequestedStart - 1)

\* C21: when the earliest year of the requested window of a growth metric
\* has a missing value, the metric is the CAGR over the window narrowed by
\* one year (start moved to the next year, one period fewer), for every
\* number of available years from 2 upward.
C21_WindowNarrowedOnMissingStart ==
    (/\ cpc = "returned_metric"
     /\ has_item
     /\ num_years >= 2
     /\ column[RequestedStart] = NaN) => cagr_result = NarrowedGrowth

MaCallEnded == apc \in {"returned_moving_averages", "raised_moving_averages"}

\* C22: on a history of exactly 19 bars the three averages of the latest bar are
\* undefined, analyze_moving_averages returns its mapping without raising, the three
\* distances dist_from_20, dist_from_50 and dist_from_200 are None and the score is 0.
C22_NineteenBarsGiveNullDistances ==
    (MaCallEnded /\ frame.bars = SmaEntryWindow - 1) =>
        /\ frame.sma_20 = NaN /\ frame.sma_50 = NaN /\ frame.sma_200 = NaN
        /\ apc = "returned_moving_averages"
        /\ analysis.returned = "dict"
        /\ analysis.dist_from_20 = NoneValue
        /\ analysis.dist_from_50 = NoneValue
        /\ analysis.dist_from_200 = NoneValue
        /\ analysis.score = 0

C22_Witness ==
    /\ apc = "returned_moving_averages"
    /\ frame.bars = SmaEntryWindow - 1
    /\ analysis.dist_from_20 = NoneValue
    /\ analysis.score = 0

MacdReturned == apc = "returned_macd" /\ analysis.returned = "dict"

\* The bars i in 1..10 of the frame at which MACD is above its signal while it is not on
\* the bar before.
Flips ==
    {k \in 1..10 : /\ k < Len(frame.rows)
                   /\ Bullish(Iloc(frame.rows, k))
                   /\ ~Bullish(Iloc(frame.rows, k + 1))}

FirstFlip == CHOOSE k \in Flips : \A j \in Flips : k <= j

FreshCrossover == Bullish(Iloc(frame.rows, 1)) /\ Flips # {} /\ FirstFlip <= 5

\* C23: analyze_macd signals STRONG BUY iff MACD > signal now and the first flip found
\* scanning back over the last 10 bars is at most 5 bars ago; otherwise BUY iff
\* MACD > signal and the histogram grew since the previous bar; otherwise HOLD iff
\* MACD > signal; otherwise AVOID.
C23_MacdSignalPriority ==
    MacdReturned =>
        LET now == Iloc(frame.rows, 1)
            growing == Hist(now) > Hist(Iloc(frame.rows, 2))
        IN  analysis.signal =
                IF FreshCrossover THEN "STRONG BUY - Fresh crossover"
                ELSE IF Bullish(now) /\ growing THEN "BUY - Momentum building"
                ELSE IF Bullish(now) THEN "HOLD - Bullish but watch for weakening"
                ELSE "AVOID - Bearish momentum"

C23_Witness ==
    /\ MacdReturned
    /\ FreshCrossover
    /\ Hist(Iloc(frame.rows, 1)) > Hist(Iloc(frame.rows, 2))
    /\ FirstFlip = 5
    /\ analysis.signal = "STRONG BUY - Fresh crossover"

\* C28: when analyze_macd reports a crossover k bars ago and MACD > signal on the latest
\* bar, then 1 <= k <= 10, MACD > signal holds on each of the latest k bars and
\* MACD <= signal holds on the bar just before them.
C28_CrossoverStartsBullishRun ==
    (/\ MacdReturned /\ analysis.recent_crossover
     /\ Bullish(Iloc(frame.rows, 1))) =>
        LET k == analysis.crossover_days_ago[2]
        IN  /\ analysis.crossover_days_ago[1] = "num"
            /\ k \in 1..10
            /\ k < Len(frame.rows)
            /\ \A j \in 1..k : Bullish(Iloc(frame.rows, j))
            /\ ~Bullish(Iloc(frame.rows, k + 1))

C28_Witness ==
    /\ MacdReturned /\ analysis.recent_crossover
    /\ Bullish(Iloc(frame.rows, 1))
    /\ analysis.crossover_days_ago = Num(10)
    /\ Len(frame.rows) = 12
    /\ Bullish(Iloc(frame.rows, 12))

SrReturned == apc = "returned_support_resistance" /\ analysis.returned = "dict"

\* C24: the support/resistance sub-score is 2 when the distance to support is below 2%,
\* else 1 when it is below 5%, else 0, plus 1 when the distance to resistance is above 5%;
\* it lies in 0..3 and is 3 exactly when the price is at support with more than 5% room
\* to resistance.
C24_SupportResistanceScore ==
    SrReturned =>
        LET room == PctGt(analysis.dist_to_resistance, 5)
        IN  /\ analysis.score =
                   (IF PctLt(analysis.dist_to_support, 2) THEN 2
                    ELSE IF PctLt(analysis.dist_to_support, 5) THEN 1
                    ELSE 0)
                   + (IF room THEN 1 ELSE 0)
            /\ analysis.score \in 0..3
            /\ (analysis.score = 3) = (analysis.at_support /\ room)

C24_Witness ==
    /\ SrReturned
    /\ analysis.at_support
    /\ PctGt(analysis.dist_to_resistance, 5)
    /\ analysis.score = 3
    /\ analysis.nearest_support = Num(99)

\* C25: for a stop below the entry, calculate_position_size returns
\* shares = floor(risk_amount / (entry - stop)) with
\* risk_amount = portfolio_value * risk_percent / 100, so that the actual risk
\* shares * (entry - stop) is at most risk_amount and short of it by less than the risk of
\* one share.  (Prices and the risk percent are in tenths: risk_amount / risk_per_share
\* is portfolio_value * risk_percent / (100 * risk_per_share).)
C25_SharesAreFlooredRisk ==
    (ppc # "call" /\ pos_args.stop_loss_price < pos_args.entry_price) =>
        LET risk_per_share == pos_args.entry_price - pos_args.stop_loss_price
            risk == pos_args.portfolio_value * pos_args.risk_percent
        IN  /\ ppc = "returned"
            /\ pos_result.status = "ok"
            /\ pos_result.shares = risk \div (100 * risk_per_share)
            /\ pos_result.shares * risk_per_share * 100 <= risk
            /\ risk - pos_result.shares * risk_per_share * 100 < risk_per_share * 100

\* C26: whenever at least one of the Graham, DCF and Buffett components is available the
\* composite score of calculate_composite_valuation is at least 0.2, so that
\* 'Strong Sell' is issued only when no component is available.
C26_CompositeFloor ==
    (/\ vpc = "returned"
     /\ (graham_score # Absent \/ per_share_value # Absent \/ buffett_score # Absent)) =>
        /\ GeFloat(composite_score, Frac(2, 10))
        /\ valuation # "Strong Sell"

\* The points a metric's bucket can earn when the metric is in the mapping.
BucketPoints(key) == IF key \in {"CFO", "EY"} THEN 5 ELSE 10

RECURSIVE PresentPoints(_, _)
PresentPoints(m, keys) ==
    IF keys = {} THEN 0
    ELSE LET k == CHOOSE x \in keys : TRUE
         IN  (IF m[k] = Absent THEN 0 ELSE BucketPoints(k)) + PresentPoints(m, keys \ {k})

\* C27: in _calculate_fundamental_score a metric absent from the mapping earns no points
\* for its bucket, so that the score is at most the points of the buckets whose metric is
\* present and an empty mapping scores 0; the score is a multiple of 5 between 0 and 100.
C27_AbsentMetricsEarnNothing ==
    fscore[1] = "num" =>
        /\ fscore[2] <= PresentPoints(fund_result, DOMAIN fund_result)
        /\ (\A k \in DOMAIN fund_result : fund_result[k] = Absent) => fscore = Num(0)
        /\ fscore[2] \in 0..100
        /\ fscore = Num(fscore[2])
        /\ fscore[2] % 5 = 0

RsiScored == "rsi" \in DOMAIN sub /\ IsNum(latest_rsi)

\* C30: for every defined RSI the RSI sub-score is 1, 2 or 3: it is 3 exactly when
\* 50 < RSI < 70, 2 exactly when 40 < RSI <= 50, and 1 otherwise (RSI <= 40 or RSI >= 70);
\* the signal of a defined RSI is never 'NEUTRAL'.
C30_RsiScoreNeverZero ==
    RsiScored =>
        LET x == latest_rsi[2]
        IN  /\ sub["rsi"] \in {1, 2, 3}
            /\ (sub["rsi"] = 3) = (50 * RsiScale < x /\ x < 70 * RsiScale)
            /\ (sub["rsi"] = 2) = (40 * RsiScale < x /\ x <= 50 * RsiScale)
            /\ (sub["rsi"] = 1) = (x <= 40 * RsiScale \/ x >= 70 * RsiScale)
            /\ rsi_signal # "NEUTRAL"

C30_Witness ==
    /\ RsiScored
    /\ latest_rsi = Num(70 * RsiScale)
    /\ sub["rsi"] = 1
    /\ rsi_signal = "BUY - Acceptable zone"

====
